---- MODULE Spec2Model ----
(***************************************************************************)
(* Model of the agentic-memory-server storage core: the SQLite store       *)
(* (branches, entities, observations, relations, keywords,                 *)
(* cross-references), the operations of SQLiteEntityOperations,            *)
(* SQLiteRelationOperations, SQLiteBranchOperations and                    *)
(* SQLiteSearchOperations, and the smart-search read path.                 *)
(***************************************************************************)
EXTENDS Integers, Sequences, FiniteSets, Bags, TLC

VARIABLES memory_branches, entities, observations, relations, keywords,
          cross_references, entities_fts, sqlite_sequence, ret, tasks,
          indexer, lag, manager

storeVars == <<memory_branches, entities, observations, relations, keywords,
               cross_references, entities_fts, sqlite_sequence>>
vars == <<memory_branches, entities, observations, relations, keywords,
          cross_references, entities_fts, sqlite_sequence, ret, tasks,
          indexer, lag, manager>>

(***************************************************************************)
(* Bounds of the model: the highest row id each AUTOINCREMENT table may    *)
(* hand out.                                                               *)
(***************************************************************************)
MaxBranchId == 2
MaxEntityId == 3
MaxObservationId == 4
MaxKeywordId == 1
MaxCrossRefId == 2
\* The number of calls in flight at once.
NumTasks == 2
\* The highest branch id the background worker may hand out.
MaxWorkerBranchId == 3
\* The highest number of task slots counted for a waiting entity.
MaxLag == 3
\* The highest number of backup files.
MaxBackups == 6

\* An optional argument that the caller left out (JavaScript undefined).
Undefined == "undefined"

\* JavaScript truthiness of an optional string: undefined and "" are falsy.
Falsy(s) == s \in {Undefined, ""}

\* JavaScript `s || dflt` on an optional string.
OrElse(s, dflt) == IF Falsy(s) THEN dflt ELSE s

\* String.prototype.trim on the strings the model feeds in.
Trim(s) ==
  CASE s = " Auth" -> "Auth"
    [] s = "  " -> ""
    [] OTHER -> s

Range(s) == {s[i] : i \in DOMAIN s}

(***************************************************************************)
(* The store as a value, so that the steps of a handler compose.           *)
(***************************************************************************)
DB == [memory_branches |-> memory_branches, entities |-> entities,
       observations |-> observations, relations |-> relations,
       keywords |-> keywords, cross_references |-> cross_references,
       entities_fts |-> entities_fts, sqlite_sequence |-> sqlite_sequence]

\* Writes the store value d back to the tables.
Commit(d) ==
  /\ memory_branches' = d.memory_branches
  /\ entities' = d.entities
  /\ observations' = d.observations
  /\ relations' = d.relations
  /\ keywords' = d.keywords
  /\ cross_references' = d.cross_references
  /\ entities_fts' = d.entities_fts
  /\ sqlite_sequence' = d.sqlite_sequence

\* The AUTOINCREMENT counters stay within the bounds of the model.
WithinBounds(d) ==
  /\ d.sqlite_sequence.memory_branches <= MaxBranchId
  /\ d.sqlite_sequence.entities <= MaxEntityId
  /\ d.sqlite_sequence.observations <= MaxObservationId
  /\ d.sqlite_sequence.keywords <= MaxKeywordId
  /\ d.sqlite_sequence.cross_references <= MaxCrossRefId

\* The next id of an AUTOINCREMENT table: ids are never handed out twice.
NextId(d, table) == d.sqlite_sequence[table] + 1

(***************************************************************************)
(* SQLiteConnection                                                        *)
(***************************************************************************)
\* SELECT id FROM memory_branches WHERE name = ?
BranchRows(d, name) == {b \in d.memory_branches : b.name = name}

\* InsertBranch as it would be without the UNIQUE constraint on the name.
InsertBranch_NoUnique(d, name) ==
  [db |-> [d EXCEPT
            !.memory_branches = @ \cup {[id |-> NextId(d, "memory_branches"), name |-> name]},
            !.sqlite_sequence.memory_branches = @ + 1],
   ok |-> TRUE]

\* INSERT INTO memory_branches (name, purpose): name is UNIQUE NOT NULL.
InsertBranch(d, name) ==
  IF BranchRows(d, name) # {}
  THEN [db |-> d, ok |-> FALSE]
  ELSE [db |-> [d EXCEPT
                 !.memory_branches = @ \cup {[id |-> NextId(d, "memory_branches"), name |-> name]},
                 !.sqlite_sequence.memory_branches = @ + 1],
        ok |-> TRUE]

\* getBranchId: looks the branch up by name and creates it when missing.
getBranchId(d, branchName) ==
  LET name == OrElse(branchName, "main")
      rows == BranchRows(d, name)
  IN IF rows # {}
     THEN [db |-> d, id |-> (CHOOSE b \in rows : TRUE).id]
     ELSE [db |-> InsertBranch(d, name).db, id |-> NextId(d, "memory_branches")]

\* getBranchName: the name of the branch row with this id.
getBranchName(d, branchId) ==
  (CHOOSE b \in d.memory_branches : b.id = branchId).name

(***************************************************************************)
(* SQL statements of the entity, observation, keyword and cross-reference  *)
(* tables, with the constraints of createSchema.                           *)
(***************************************************************************)
\* The lowercased words of the texts the calls store and search for.
WordsOf(text) ==
  CASE text \in {"Auth", "auth"} -> {"auth"}
    [] text = "Cache" -> {"cache"}
    [] text = "Service" -> {"service"}
    [] text = "Unknown" -> {"unknown"}
    [] text = "jwt tokens" -> {"jwt", "tokens"}
    [] text = "auth cache" -> {"auth", "cache"}
    [] OTHER -> {}

\* Trigger entities_fts_insert: the index row of an entity holds the tokens
\* of its name, its type and its optimized_content.
FtsTokens(name, entityType, content) ==
  WordsOf(name) \cup WordsOf(entityType) \cup WordsOf(content.name)
    \cup WordsOf(content.entityType)
    \cup UNION {WordsOf(content.observations[i]) : i \in DOMAIN content.observations}

\* entities_fts holds the rowids of the documents of the full-text index
\* (its shadow rows); the tokens of a document are kept in field fts of the
\* entity row it is joined to.
\* INSERT INTO entities_fts(rowid, ...): the index gets a document.
FtsInsert(d, rowid) == [d EXCEPT !.entities_fts = @ \cup {rowid}]

\* DELETE FROM entities_fts WHERE rowid = ?: the table has external content
\* (content='entities'), so the row to delete is looked up in entities and
\* nothing is removed from the index when entities has no such row.
FtsDelete(d, rowid) ==
  IF \E e \in d.entities : e.id = rowid
  THEN [d EXCEPT !.entities_fts = @ \ {rowid}]
  ELSE d

\* The triggers AFTER INSERT, AFTER DELETE and AFTER UPDATE ON entities.
entities_fts_insert(d, id) == FtsInsert(d, id)
entities_fts_delete(d, id) == FtsDelete(d, id)
entities_fts_update(d, id) == FtsInsert(FtsDelete(d, id), id)

\* SELECT id FROM entities WHERE name = ? AND branch_id = ?
EntityRows(d, name, branchId) ==
  {e \in d.entities : e.name = name /\ e.branch_id = branchId}

\* EntityId as it would be if the SELECT left out `AND branch_id = ?`.
EntityId_AnyBranch(d, name, branchId) ==
  LET rows == {e \in d.entities : e.name = name}
  IN IF rows = {} THEN 0 ELSE (CHOOSE e \in rows : TRUE).id

\* The id of the row the SELECT returns, 0 when it returns none.
EntityId(d, name, branchId) ==
  LET rows == EntityRows(d, name, branchId)
  IN IF rows = {} THEN 0 ELSE (CHOOSE e \in rows : TRUE).id

\* InsertEntity as it would be without UNIQUE(name, branch_id).
InsertEntity_NoUnique(d, name, entityType, branchId, status, originalContent) ==
  IF ~ \E b \in d.memory_branches : b.id = branchId
  THEN [db |-> d, ok |-> FALSE]
  ELSE [db |-> entities_fts_insert(
                 [d EXCEPT
                   !.entities = @ \cup {[id |-> NextId(d, "entities"), name |-> name,
                                         entity_type |-> entityType,
                                         branch_id |-> branchId, status |-> status,
                                         optimized_content |-> originalContent,
                                         fts |-> FtsTokens(name, entityType,
                                                           originalContent)]},
                   !.sqlite_sequence.entities = @ + 1],
                 NextId(d, "entities")),
        ok |-> TRUE]

\* INSERT INTO entities: UNIQUE(name, branch_id), FOREIGN KEY (branch_id).
InsertEntity(d, name, entityType, branchId, status, originalContent) ==
  IF \/ EntityRows(d, name, branchId) # {}
     \/ ~ \E b \in d.memory_branches : b.id = branchId
  THEN [db |-> d, ok |-> FALSE]
  ELSE [db |-> entities_fts_insert(
                 [d EXCEPT
                   !.entities = @ \cup {[id |-> NextId(d, "entities"), name |-> name,
                                         entity_type |-> entityType,
                                         branch_id |-> branchId, status |-> status,
                                         optimized_content |-> originalContent,
                                         fts |-> FtsTokens(name, entityType,
                                                           originalContent)]},
                   !.sqlite_sequence.entities = @ + 1],
                 NextId(d, "entities")),
        ok |-> TRUE]

\* INSERT INTO observations: content TEXT NOT NULL, FOREIGN KEY (entity_id)
\* REFERENCES entities.
InsertObservation(d, entityId, content, seq) ==
  IF content = Undefined \/ ~ \E e \in d.entities : e.id = entityId
  THEN [db |-> d, ok |-> FALSE]
  ELSE [db |-> [d EXCEPT
                 !.observations = @ \cup {[id |-> NextId(d, "observations"),
                                           entity_id |-> entityId,
                                           content |-> content,
                                           sequence_order |-> seq]},
                 !.sqlite_sequence.observations = @ + 1],
        ok |-> TRUE]

\* INSERT INTO keywords: FOREIGN KEY (entity_id) REFERENCES entities.
InsertKeyword(d, entityId, keyword) ==
  IF ~ \E e \in d.entities : e.id = entityId
  THEN [db |-> d, ok |-> FALSE]
  ELSE [db |-> [d EXCEPT
                 !.keywords = @ \cup {[id |-> NextId(d, "keywords"),
                                       entity_id |-> entityId, keyword |-> keyword]},
                 !.sqlite_sequence.keywords = @ + 1],
        ok |-> TRUE]

\* INSERT OR IGNORE INTO cross_references: the table declares no UNIQUE
\* constraint, so only the foreign keys can reject the row.
InsertCrossReference(d, fromId, targetBranchId, targetName) ==
  IF \/ ~ \E e \in d.entities : e.id = fromId
     \/ ~ \E b \in d.memory_branches : b.id = targetBranchId
  THEN [db |-> d, ok |-> FALSE]
  ELSE [db |-> [d EXCEPT
                 !.cross_references = @ \cup {[id |-> NextId(d, "cross_references"),
                                               from_entity_id |-> fromId,
                                               target_branch_id |-> targetBranchId,
                                               target_entity_name |-> targetName]},
                 !.sqlite_sequence.cross_references = @ + 1],
        ok |-> TRUE]

\* DELETE FROM entities WHERE id = ?: observations, relations, keywords and
\* cross-references of the entity go with it (ON DELETE CASCADE), and
\* trigger entities_fts_delete runs after the row is gone.
DeleteEntityRow(d, entityId) ==
  entities_fts_delete(
    [d EXCEPT
      !.entities = {e \in @ : e.id # entityId},
      !.observations = {o \in @ : o.entity_id # entityId},
      !.relations = {r \in @ : r.from_entity_id # entityId /\ r.to_entity_id # entityId},
      !.keywords = {k \in @ : k.entity_id # entityId},
      !.cross_references = {c \in @ : c.from_entity_id # entityId}],
    entityId)

(***************************************************************************)
(* SQLiteEntityOperations                                                  *)
(***************************************************************************)
\* String.prototype.toLowerCase on the keywords the model feeds in.
toLowerCase(s) ==
  CASE s = "Auth" -> "auth"
    [] OTHER -> s

\* The loop of createCrossReference over the target names: a target that
\* is missing in the target branch is skipped, the others are inserted.
RECURSIVE createCrossReferenceLoop(_, _, _, _)
createCrossReferenceLoop(d, sourceId, targetBranchId, targetEntityNames) ==
  IF targetEntityNames = <<>> THEN d
  ELSE LET t == Head(targetEntityNames)
           d1 == IF EntityId(d, t, targetBranchId) = 0 THEN d
                 ELSE InsertCrossReference(d, sourceId, targetBranchId, t).db
       IN createCrossReferenceLoop(d1, sourceId, targetBranchId, Tail(targetEntityNames))

\* createCrossReference: resolves both branches (creating them when
\* missing), throws when the source entity is missing.
createCrossReference(d, entityName, targetBranch, targetEntityNames, sourceBranch) ==
  LET s == getBranchId(d, sourceBranch)
      t == getBranchId(s.db, targetBranch)
      sourceId == EntityId(t.db, entityName, s.id)
  IN IF sourceId = 0
     THEN [db |-> t.db, ok |-> FALSE]
     ELSE [db |-> createCrossReferenceLoop(t.db, sourceId, t.id, targetEntityNames),
           ok |-> TRUE]

\* The loop over entity.crossRefs in createSingleEntity and updateEntity:
\* a createCrossReference that throws is logged and the loop goes on.
RECURSIVE crossRefsLoop(_, _, _, _)
crossRefsLoop(d, entityName, crossRefs, branchName) ==
  IF crossRefs = <<>> THEN d
  ELSE LET c == Head(crossRefs)
           r == createCrossReference(d, entityName, c.memoryBranch, c.entityNames, branchName)
       IN crossRefsLoop(r.db, entityName, Tail(crossRefs), branchName)

\* The observation loop of createSingleEntity and updateEntity: contents[i]
\* is stored with sequence_order i, counted from `from`.
RECURSIVE insertObservationsLoop(_, _, _, _)
insertObservationsLoop(d, entityId, contents, from) ==
  IF contents = <<>> THEN [db |-> d, ok |-> TRUE]
  ELSE LET r == InsertObservation(d, entityId, Head(contents), from)
       IN IF ~ r.ok THEN [db |-> d, ok |-> FALSE]
          ELSE insertObservationsLoop(r.db, entityId, Tail(contents), from + 1)

\* The keyword loop of createSingleEntity: blank keywords are skipped, the
\* others are stored trimmed and in lower case.
RECURSIVE insertKeywordsLoop(_, _, _)
insertKeywordsLoop(d, entityId, kws) ==
  IF kws = <<>> THEN [db |-> d, ok |-> TRUE]
  ELSE LET k == Head(kws)
       IN IF Falsy(k) \/ Trim(k) = ""
          THEN insertKeywordsLoop(d, entityId, Tail(kws))
          ELSE LET r == InsertKeyword(d, entityId, toLowerCase(Trim(k)))
               IN IF ~ r.ok THEN [db |-> d, ok |-> FALSE]
                  ELSE insertKeywordsLoop(r.db, entityId, Tail(kws))

\* An observation survives the filter of createSingleEntity and
\* addObservations when it is truthy and not blank.
IsValidObservation(obs) == ~ Falsy(obs) /\ Trim(obs) # ""

validName(entity) == OrElse(Trim(OrElse(entity.name, "")), "Unnamed Entity")
validEntityType(entity) == OrElse(Trim(OrElse(entity.entityType, "")), "Unknown")
validObservations(entity) == SelectSeq(entity.observations, IsValidObservation)

\* JSON.stringify({name, entityType, observations}): the text stored in
\* original_content and optimized_content, kept as its three parts.
originalContent(entity) ==
  [name |-> validName(entity), entityType |-> validEntityType(entity),
   observations |-> validObservations(entity)]

\* createSingleEntity: throws when (name, branch) exists, else inserts the
\* entity row, its observations, its keywords and its cross-references.
createSingleEntity(d, entity, branchId) ==
  LET name == validName(entity)
      created == [name |-> name, entityType |-> validEntityType(entity),
                  observations |-> validObservations(entity),
                  status |-> OrElse(entity.status, "active")]
  IN IF EntityRows(d, name, branchId) # {}
     THEN [db |-> d, ok |-> FALSE, entity |-> created]
     ELSE LET ins == InsertEntity(d, name, validEntityType(entity), branchId,
                                  OrElse(entity.status, "active"),
                                  originalContent(entity))
              id == EntityId(ins.db, name, branchId)
              obs == insertObservationsLoop(ins.db, id, validObservations(entity), 0)
              kws == insertKeywordsLoop(obs.db, id, entity.keywords)
              refs == IF entity.crossRefs = <<>> THEN kws.db
                      ELSE crossRefsLoop(kws.db, name, entity.crossRefs,
                                         getBranchName(kws.db, branchId))
          IN IF ~ ins.ok THEN [db |-> d, ok |-> FALSE, entity |-> created]
             ELSE IF ~ obs.ok THEN [db |-> obs.db, ok |-> FALSE, entity |-> created]
             ELSE IF ~ kws.ok THEN [db |-> kws.db, ok |-> FALSE, entity |-> created]
             ELSE [db |-> refs, ok |-> TRUE, entity |-> created]

\* The loop of createEntities: an entity whose creation throws is logged
\* and skipped, the others are collected in `created`.
RECURSIVE createEntitiesLoop(_, _, _)
createEntitiesLoop(d, batch, branchId) ==
  IF batch = <<>> THEN [db |-> d, created |-> <<>>]
  ELSE LET r == createSingleEntity(d, Head(batch), branchId)
           rest == createEntitiesLoop(r.db, Tail(batch), branchId)
       IN [db |-> rest.db,
           created |-> IF r.ok THEN <<r.entity>> \o rest.created ELSE rest.created]

createEntities(d, batch, branchName) ==
  LET b == getBranchId(d, branchName)
  IN createEntitiesLoop(b.db, batch, b.id)

\* updateEntity: throws NotFound when the entity is missing, and a storage
\* error when the UPDATE is given no entity_type (NOT NULL) or an INSERT of
\* the observation loop fails, which leaves the statements already run in
\* place; else replaces type, status, the observations (numbered from 0,
\* unfiltered) and the cross-references.  Trigger
\* entities_fts_update adds the tokens of the new row to the index row; the
\* table has external content, so its DELETE removes the tokens of the row
\* as it is after the UPDATE and the tokens of the old type stay.
updateEntity(d, entity, branchName) ==
  LET b == getBranchId(d, branchName)
      id == EntityId(b.db, entity.name, b.id)
      d1 == [entities_fts_update(b.db, id) EXCEPT
               !.entities = {IF e.id = id
                             THEN [e EXCEPT !.entity_type = entity.entityType,
                                            !.status = OrElse(entity.status, "active"),
                                            !.fts = @ \cup FtsTokens(e.name, entity.entityType,
                                                                      e.optimized_content)]
                             ELSE e : e \in @},
               !.observations = {o \in @ : o.entity_id # id}]
      obs == insertObservationsLoop(d1, id, entity.observations, 0)
      d2 == [obs.db EXCEPT !.cross_references = {c \in @ : c.from_entity_id # id}]
      d3 == IF entity.crossRefs = <<>> THEN d2
            ELSE crossRefsLoop(d2, entity.name, entity.crossRefs, getBranchName(d2, b.id))
  IN IF id = 0 THEN [db |-> b.db, ok |-> FALSE, err |-> "NotFound"]
     ELSE IF entity.entityType = Undefined
     THEN [db |-> b.db, ok |-> FALSE, err |-> "Storage"]
     ELSE IF ~ obs.ok THEN [db |-> obs.db, ok |-> FALSE, err |-> "Storage"]
     ELSE [db |-> d3, ok |-> TRUE, err |-> ""]

\* deleteOneEntity as it would be without the final DELETE FROM entities.
deleteOneEntity_KeepsRow(d, id) ==
  [d EXCEPT
    !.observations = {o \in @ : o.entity_id # id},
    !.relations = {r \in @ : r.from_entity_id # id /\ r.to_entity_id # id},
    !.keywords = {k \in @ : k.entity_id # id},
    !.cross_references = {c \in @ : c.from_entity_id # id}]

\* The body of the loop of deleteEntities for a found entity: the
\* observations, relations, keywords and cross-references are deleted,
\* then the entity row.
deleteOneEntity(d, id) ==
  DeleteEntityRow(
    [d EXCEPT
      !.observations = {o \in @ : o.entity_id # id},
      !.relations = {r \in @ : r.from_entity_id # id /\ r.to_entity_id # id},
      !.keywords = {k \in @ : k.entity_id # id},
      !.cross_references = {c \in @ : c.from_entity_id # id}],
    id)

\* The loop of deleteEntities: a missing name is logged and skipped.
RECURSIVE deleteEntitiesLoop(_, _, _)
deleteEntitiesLoop(d, entityNames, branchId) ==
  IF entityNames = <<>> THEN d
  ELSE LET id == EntityId(d, Head(entityNames), branchId)
           d1 == IF id = 0 THEN d ELSE deleteOneEntity(d, id)
       IN deleteEntitiesLoop(d1, Tail(entityNames), branchId)

deleteEntities(d, entityNames, branchName) ==
  IF entityNames = <<>> THEN d
  ELSE LET b == getBranchId(d, branchName)
       IN deleteEntitiesLoop(b.db, entityNames, b.id)

\* SELECT COALESCE(MAX(sequence_order), -1) FROM observations WHERE entity_id = ?
MaxSequenceOrder(d, entityId) ==
  LET seqs == {o.sequence_order : o \in {x \in d.observations : x.entity_id = entityId}}
  IN IF seqs = {} THEN -1 ELSE CHOOSE m \in seqs : \A n \in seqs : n <= m

\* const startSeq = (maxSeq?.max_seq || -1) + 1: the number 0 is falsy.
startSeq(maxSeq) == (IF maxSeq = 0 THEN -1 ELSE maxSeq) + 1

\* The content loop of addObservations: contents[i] is stored with
\* sequence_order start + i unless it is blank.
RECURSIVE addContentsLoop(_, _, _, _, _)
addContentsLoop(d, entityId, contents, start, i) ==
  IF contents = <<>> THEN [db |-> d, added |-> <<>>]
  ELSE LET c == Head(contents)
       IN IF IsValidObservation(c)
          THEN LET r == InsertObservation(d, entityId, c, start + i)
                   rest == addContentsLoop(r.db, entityId, Tail(contents), start, i + 1)
               IN [db |-> rest.db, added |-> <<c>> \o rest.added]
          ELSE addContentsLoop(d, entityId, Tail(contents), start, i + 1)

\* addObservations: for each item whose entity exists, appends its
\* contents after the current maximum sequence_order.
RECURSIVE addObservationsLoop(_, _, _)
addObservationsLoop(d, items, branchId) ==
  IF items = <<>> THEN [db |-> d, results |-> <<>>]
  ELSE LET item == Head(items)
           id == EntityId(d, item.entityName, branchId)
       IN IF id = 0 THEN addObservationsLoop(d, Tail(items), branchId)
          ELSE LET r == addContentsLoop(d, id, item.contents,
                                        startSeq(MaxSequenceOrder(d, id)), 0)
                   rest == addObservationsLoop(r.db, Tail(items), branchId)
               IN [db |-> rest.db,
                   results |-> <<[entityName |-> item.entityName,
                                  addedObservations |-> r.added]>> \o rest.results]

addObservations(d, items, branchName) ==
  LET b == getBranchId(d, branchName)
  IN addObservationsLoop(b.db, items, b.id)

\* deleteObservations: for each item whose entity exists, deletes the
\* observations whose content equals one of the given strings.
RECURSIVE deleteObservationsLoop(_, _, _)
deleteObservationsLoop(d, deletions, branchId) ==
  IF deletions = <<>> THEN d
  ELSE LET item == Head(deletions)
           id == EntityId(d, item.entityName, branchId)
           d1 == IF id = 0 THEN d
                 ELSE [d EXCEPT !.observations =
                         {o \in @ : ~ (o.entity_id = id /\ o.content \in Range(item.observations))}]
       IN deleteObservationsLoop(d1, Tail(deletions), branchId)

deleteObservations(d, deletions, branchName) ==
  LET b == getBranchId(d, branchName)
  IN deleteObservationsLoop(b.db, deletions, b.id)

(***************************************************************************)
(* SQLiteRelationOperations                                                *)
(***************************************************************************)
\* if (!relation.from || !relation.to || !relation.relationType)
IsInvalidRelation(relation) ==
  Falsy(relation.from) \/ Falsy(relation.to) \/ Falsy(relation.relationType)

\* INSERT OR IGNORE INTO relations: UNIQUE(from_entity_id, to_entity_id,
\* relation_type) makes a second insert of the same key a no-op.
InsertRelationOrIgnore(d, fromId, toId, relationType, branchId) ==
  IF \E r \in d.relations : /\ r.from_entity_id = fromId
                            /\ r.to_entity_id = toId
                            /\ r.relation_type = relationType
  THEN d
  ELSE [d EXCEPT !.relations = @ \cup {[from_entity_id |-> fromId, to_entity_id |-> toId,
                                        relation_type |-> relationType,
                                        branch_id |-> branchId]}]

\* The loop of createRelations: an invalid relation or one with a missing
\* endpoint is skipped; every other relation is inserted (or ignored) and
\* pushed to the returned list.
RECURSIVE createRelationsLoop(_, _, _)
createRelationsLoop(d, rels, branchId) ==
  IF rels = <<>> THEN [db |-> d, created |-> <<>>]
  ELSE LET relation == Head(rels)
           fromId == EntityId(d, relation.from, branchId)
           toId == EntityId(d, relation.to, branchId)
       IN IF IsInvalidRelation(relation) \/ fromId = 0 \/ toId = 0
          THEN createRelationsLoop(d, Tail(rels), branchId)
          ELSE LET d1 == InsertRelationOrIgnore(d, fromId, toId, relation.relationType, branchId)
                   rest == createRelationsLoop(d1, Tail(rels), branchId)
               IN [db |-> rest.db, created |-> <<relation>> \o rest.created]

createRelations(d, rels, branchName) ==
  IF rels = <<>> THEN [db |-> d, created |-> <<>>]
  ELSE LET b == getBranchId(d, branchName)
       IN createRelationsLoop(b.db, rels, b.id)

\* The loop of deleteRelations: delete by key, nothing when an endpoint or
\* the row is absent.
RECURSIVE deleteRelationsLoop(_, _, _)
deleteRelationsLoop(d, rels, branchId) ==
  IF rels = <<>> THEN d
  ELSE LET relation == Head(rels)
           fromId == EntityId(d, relation.from, branchId)
           toId == EntityId(d, relation.to, branchId)
           d1 == IF IsInvalidRelation(relation) \/ fromId = 0 \/ toId = 0 THEN d
                 ELSE [d EXCEPT !.relations =
                         {r \in @ : ~ (/\ r.from_entity_id = fromId
                                       /\ r.to_entity_id = toId
                                       /\ r.relation_type = relation.relationType
                                       /\ r.branch_id = branchId)}]
       IN deleteRelationsLoop(d1, Tail(rels), branchId)

deleteRelations(d, rels, branchName) ==
  IF rels = <<>> THEN d
  ELSE LET b == getBranchId(d, branchName)
       IN deleteRelationsLoop(b.db, rels, b.id)

(***************************************************************************)
(* SQLiteBranchOperations                                                  *)
(***************************************************************************)
\* createBranch: a plain INSERT, which the UNIQUE constraint on the name
\* rejects when the branch exists.
createBranch(d, branchName) ==
  LET r == InsertBranch(d, branchName)
  IN IF branchName = Undefined \/ ~ r.ok
     THEN [db |-> d, err |-> "Storage"]
     ELSE [db |-> r.db, err |-> ""]

\* DELETE FROM memory_branches WHERE id = ?: the foreign keys of entities,
\* relations and cross_references on the branch declare no ON DELETE
\* action, so a referenced branch row cannot be deleted.
DeleteBranchRow(d, branchId) ==
  IF \/ \E e \in d.entities : e.branch_id = branchId
     \/ \E r \in d.relations : r.branch_id = branchId
     \/ \E c \in d.cross_references : c.target_branch_id = branchId
  THEN [db |-> d, ok |-> FALSE]
  ELSE [db |-> [d EXCEPT !.memory_branches = {b \in @ : b.id # branchId}], ok |-> TRUE]

\* deleteBranch as it would be without the guard on the name main.
deleteBranch_NoGuard(d, branchName) ==
  LET b == getBranchId(d, branchName)
      r == DeleteBranchRow(b.db, b.id)
  IN IF r.ok THEN [db |-> r.db, err |-> ""]
     ELSE [db |-> b.db, err |-> "Storage"]

\* deleteBranch: refuses main; else resolves the id (creating the branch
\* when missing) and deletes the row.
deleteBranch(d, branchName) ==
  IF branchName = "main"
  THEN [db |-> d, err |-> "CannotDeleteMain"]
  ELSE LET b == getBranchId(d, branchName)
           r == DeleteBranchRow(b.db, b.id)
       IN IF r.ok THEN [db |-> r.db, err |-> ""]
          ELSE [db |-> b.db, err |-> "Storage"]

(***************************************************************************)
(* Reading the graph: SQLiteRelationOperations, ModularSQLiteOperations    *)
(* and HybridMemoryManager.  A result keeps the rows it was built from, so *)
(* that the branch of what is returned can be told.                        *)
(***************************************************************************)
\* The name of the entity with this id (the JOIN of the relation queries).
NameOf(d, entityId) == (CHOOSE e \in d.entities : e.id = entityId).name

\* What the caller sees of a relation row: from, to and relationType.
Triple(d, r) ==
  [from |-> NameOf(d, r.from_entity_id), to |-> NameOf(d, r.to_entity_id),
   relationType |-> r.relation_type]

\* getRelationsForEntities: the relations with an endpoint named in
\* entityNames, of branch branchId when it is truthy (0 stands for undefined).
getRelationsForEntities(d, entityNames, branchId) ==
  IF entityNames = {} THEN {}
  ELSE {r \in d.relations :
          /\ \/ NameOf(d, r.from_entity_id) \in entityNames
             \/ NameOf(d, r.to_entity_id) \in entityNames
          /\ branchId # 0 => r.branch_id = branchId}

getAllRelationsForBranch(d, branchId) == {r \in d.relations : r.branch_id = branchId}

\* exportBranch: every entity and relation of the branch, which getBranchId
\* creates when it is missing.
exportBranch(d, branchName) ==
  LET b == getBranchId(d, branchName)
  IN [db |-> b.db,
      entities |-> {e \in b.db.entities : e.branch_id = b.id},
      relations |-> getAllRelationsForBranch(b.db, b.id)]

\* readGraph is exportBranch: includeStatuses is not looked at.
readGraph(d, branchName, includeStatuses) == exportBranch(d, branchName)

\* findEntityByName: the rows of that name, of the branch when one is given.
findEntityByName(d, name, branchName) ==
  LET b == IF Falsy(branchName) THEN [db |-> d, id |-> 0] ELSE getBranchId(d, branchName)
  IN [db |-> b.db,
      rows |-> {e \in b.db.entities : e.name = name /\ (b.id # 0 => e.branch_id = b.id)}]

\* includeStatuses.includes(status), for the array includeStatuses.
Includes(includeStatuses, status) ==
  \E i \in DOMAIN includeStatuses : includeStatuses[i] = status

\* openNodes: each name is looked up in the branch and kept when no status
\* filter is given or its status is in the filter, with the relations of
\* the branch that touch it.
RECURSIVE openNodes(_, _, _, _)
openNodes(d, names, branchName, includeStatuses) ==
  IF names = {} THEN [db |-> d, entities |-> {}, relations |-> {}]
  ELSE LET name == CHOOSE n \in names : TRUE
           found == findEntityByName(d, name, branchName)
           kept == {e \in found.rows :
                      includeStatuses = Undefined \/ Includes(includeStatuses, e.status)}
           graph == exportBranch(found.db, branchName)
           touching == {r \in graph.relations :
                          Triple(graph.db, r).from = name \/ Triple(graph.db, r).to = name}
           rest == openNodes(IF kept = {} THEN found.db ELSE graph.db,
                             names \ {name}, branchName, includeStatuses)
       IN [db |-> rest.db,
           entities |-> kept \cup rest.entities,
           relations |-> (IF kept = {} THEN {} ELSE touching) \cup rest.relations]

(***************************************************************************)
(* Export and import: ModularSQLiteOperations.exportBranch / importData    *)
(* and SQLiteEntityOperations.convertRowsToEntities.  A text that may hold *)
(* the character '|' is kept as the sequence of its pieces between the     *)
(* '|' characters, so that GROUP_CONCAT(_, '|') chains the pieces of the   *)
(* contents and split("|") reads the pieces of the result.                 *)
(***************************************************************************)
\* The pieces of a content between its '|' characters.
Pieces(content) ==
  CASE content = "auth|cache" -> <<"auth", "cache">>
    [] content = "jwt|" -> <<"jwt", "">>
    [] OTHER -> <<content>>

\* The elements of a finite set of numbers in ascending order.
RECURSIVE Ascending(_)
Ascending(S) ==
  IF S = {} THEN <<>>
  ELSE LET m == CHOOSE x \in S : \A y \in S : x <= y
       IN <<m>> \o Ascending(S \ {m})

RECURSIVE Chain(_)
Chain(texts) == IF texts = <<>> THEN <<>> ELSE Head(texts) \o Chain(Tail(texts))

\* GROUP_CONCAT(o.content, '|') over the observations of an entity, in the
\* order of their row ids: NULL (Undefined) when the LEFT JOIN finds none.
GroupConcat(d, entityId) ==
  LET ids == Ascending({o.id : o \in {x \in d.observations : x.entity_id = entityId}})
      contents == [i \in DOMAIN ids |->
                     Pieces((CHOOSE o \in d.observations : o.id = ids[i]).content)]
  IN IF ids = <<>> THEN Undefined ELSE Chain(contents)

\* row.observations ? row.observations.split("|") : []: NULL and the empty
\* text (one empty piece) are falsy.
SplitObservations(text) ==
  IF text = Undefined \/ text = <<"">> THEN <<>> ELSE text

\* getCrossReferences: the cross-references of the entity grouped by target
\* branch, in the order of the branch ids.
getCrossReferences(d, entityName, branchId) ==
  LET rows == {c \in d.cross_references :
                 \E e \in d.entities : /\ e.id = c.from_entity_id
                                       /\ e.name = entityName
                                       /\ e.branch_id = branchId}
      targets == Ascending({c.target_branch_id : c \in rows})
  IN [i \in DOMAIN targets |->
        LET ids == Ascending({c.id : c \in {x \in rows : x.target_branch_id = targets[i]}})
        IN [memoryBranch |-> getBranchName(d, targets[i]),
            entityNames |-> [j \in DOMAIN ids |->
                               (CHOOSE c \in rows : c.id = ids[j]).target_entity_name]]]

\* convertRowsToEntities over the rows of exportBranch's SELECT (GROUP BY
\* e.id): name, type, the split observations, status and cross-references.
convertRowsToEntities(d, rows) ==
  LET ids == Ascending({e.id : e \in rows})
  IN [i \in DOMAIN ids |->
        LET row == CHOOSE e \in rows : e.id = ids[i]
        IN [name |-> row.name, entityType |-> row.entity_type,
            observations |-> SplitObservations(GroupConcat(d, row.id)),
            status |-> row.status, keywords |-> <<>>,
            crossRefs |-> getCrossReferences(d, row.name, row.branch_id)]]

\* The rows of a set of relations as the caller sees them, one after the
\* other.
RECURSIVE RelationList(_, _)
RelationList(d, rows) ==
  IF rows = {} THEN <<>>
  ELSE LET r == CHOOSE x \in rows : TRUE
       IN <<Triple(d, r)>> \o RelationList(d, rows \ {r})

\* The KnowledgeGraph exportBranch returns: the converted entities and the
\* relations of the branch.
exportGraph(d, branchName) ==
  LET g == exportBranch(d, branchName)
  IN [db |-> g.db,
      entities |-> convertRowsToEntities(g.db, g.entities),
      relations |-> RelationList(g.db, g.relations)]

\* HybridMemoryManager.updateEntityStatus: the entity findEntityByName
\* returns (the first of the converted rows) is stored by updateEntity
\* with the new status.
updateEntityStatus(d, entityName, newStatus, branchName) ==
  LET found == findEntityByName(d, entityName, branchName)
  IN IF found.rows = {} THEN [db |-> found.db, ok |-> FALSE, err |-> "NotFound"]
     ELSE LET entity == convertRowsToEntities(found.db, found.rows)[1]
          IN updateEntity(found.db, [entity EXCEPT !.status = newStatus], branchName)

\* importData: resolves the branch, then createEntities and createRelations
\* with the entities and relations of the graph.
importData(d, data, branchName) ==
  LET b == getBranchId(d, branchName)
      withEntities == IF data.entities # <<>>
                      THEN createEntities(b.db, data.entities, branchName).db
                      ELSE b.db
  IN IF data.relations # <<>>
     THEN createRelations(withEntities, data.relations, branchName).db
     ELSE withEntities

(***************************************************************************)
(* SQLiteSearchOperations                                                  *)
(***************************************************************************)
\* query.toLowerCase().split(/[\s\-_,./]+/)
SplitQuery(query) ==
  CASE query = "Auth" -> <<"auth">>
    [] query = "jwt the cache" -> <<"jwt", "the", "cache">>
    [] query = "auth-auth" -> <<"auth", "auth">>
    [] query = "a of" -> <<"a", "of">>
    [] OTHER -> <<"">>

TermLength(term) == CASE term = "" -> 0 [] term = "a" -> 1 [] OTHER -> 2

stopWords == {"the", "and", "or", "but", "in", "on", "at", "to", "for", "of", "with", "by"}

\* Array.from(new Set(terms)): the first occurrence of each term.
RECURSIVE Distinct(_)
Distinct(terms) ==
  IF terms = <<>> THEN <<>>
  ELSE LET init == Distinct(SubSeq(terms, 1, Len(terms) - 1))
           last == terms[Len(terms)]
       IN IF last \in Range(init) THEN init ELSE Append(init, last)

IsLongTerm(term) == TermLength(term) > 1
IsNoStopWord(term) == term \notin stopWords

prepareSearchTerms(query) ==
  SelectSeq(Distinct(SelectSeq(SplitQuery(query), IsLongTerm)), IsNoStopWord)

\* text LIKE '%term%' for one of the terms.
LikeAny(text, searchTerms) == WordsOf(text) \cap Range(searchTerms) # {}

\* The filter every strategy falls back on: the given statuses, or active.
StatusesOf(includeStatuses) ==
  IF includeStatuses # Undefined /\ Len(includeStatuses) > 0
  THEN Range(includeStatuses) ELSE {"active"}

\* `AND e.branch_id = ?` as it would be if no strategy added it.
InBranch_Unfiltered(e, branchId) == TRUE

\* `AND e.branch_id = ?`, added when branchId is not null (0 stands for null).
InBranch(e, branchId) == branchId = 0 \/ e.branch_id = branchId

searchByKeywords(d, searchTerms, branchId, includeStatuses) ==
  {e \in d.entities :
     /\ \E k \in d.keywords : k.entity_id = e.id /\ LikeAny(k.keyword, searchTerms)
     /\ InBranch(e, branchId)
     /\ e.status \in StatusesOf(includeStatuses)}

\* entities_fts MATCH 'term OR term ...', joined to entities on the rowid.
searchByFTS(d, searchTerms, branchId, includeStatuses) ==
  {e \in d.entities :
     /\ e.fts \cap Range(searchTerms) # {}
     /\ InBranch(e, branchId)
     /\ e.status \in StatusesOf(includeStatuses)}

searchByLike(d, searchTerms, branchId, includeStatuses) ==
  {e \in d.entities :
     /\ \/ LikeAny(e.name, searchTerms)
        \/ LikeAny(e.entity_type, searchTerms)
        \/ \E o \in d.observations : o.entity_id = e.id /\ LikeAny(o.content, searchTerms)
     /\ InBranch(e, branchId)
     /\ e.status \in StatusesOf(includeStatuses)}

\* executeEnhancedSearch: nothing for no terms, else the rows of the three
\* strategies merged by id.  Every merged row scores at least 5, so the
\* score filter keeps them all; the rows are kept here without their order.
executeEnhancedSearch(d, searchTerms, branchId, includeStatuses) ==
  IF searchTerms = <<>> THEN {}
  ELSE searchByKeywords(d, searchTerms, branchId, includeStatuses)
         \cup searchByFTS(d, searchTerms, branchId, includeStatuses)
         \cup searchByLike(d, searchTerms, branchId, includeStatuses)

\* COUNT(k.id) * MAX(k.weight) of searchByKeywords: the rows of the group
\* are the matching keywords of the entity times its observations (one row
\* when it has none, LEFT JOIN), and every keyword is stored with weight 1.
keywordScore(d, e, searchTerms) ==
  LET matching == {k \in d.keywords : k.entity_id = e.id /\ LikeAny(k.keyword, searchTerms)}
      obs == {o \in d.observations : o.entity_id = e.id}
  IN Cardinality(matching) * (IF obs = {} THEN 1 ELSE Cardinality(obs))

\* The relevance_score executeEnhancedSearch sorts by: the keyword score
\* plus 15 for a row of searchByKeywords, plus 10 for a row of searchByFTS
\* (10 when it is new: the rank of the index is dropped), plus 5 for a row
\* of searchByLike (5 when it is new: the score of the LIKE query is
\* dropped).
relevance_score(d, e, searchTerms, branchId, includeStatuses) ==
  (IF e \in searchByKeywords(d, searchTerms, branchId, includeStatuses)
   THEN keywordScore(d, e, searchTerms) + 15 ELSE 0)
  + (IF e \in searchByFTS(d, searchTerms, branchId, includeStatuses) THEN 10 ELSE 0)
  + (IF e \in searchByLike(d, searchTerms, branchId, includeStatuses) THEN 5 ELSE 0)

\* The scores of the rows performSearch finds, by entity id.
relevanceScores(d, query, branchName, includeStatuses) ==
  LET b == IF ~ Falsy(branchName) /\ branchName # "*"
           THEN getBranchId(d, branchName) ELSE [db |-> d, id |-> 0]
      terms == prepareSearchTerms(query)
      found == executeEnhancedSearch(b.db, terms, b.id, includeStatuses)
  IN [id \in {e.id : e \in found} |->
        relevance_score(b.db, CHOOSE e \in found : e.id = id, terms, b.id,
                        includeStatuses)]

\* performSearch: "*" and no branch search every branch, a named branch is
\* resolved by getBranchId.
performSearch(d, query, branchName, includeStatuses) ==
  LET b == IF ~ Falsy(branchName) /\ branchName # "*"
           THEN getBranchId(d, branchName) ELSE [db |-> d, id |-> 0]
  IN [db |-> b.db,
      entities |-> executeEnhancedSearch(b.db, prepareSearchTerms(query), b.id,
                                         includeStatuses)]

\* searchEntities: the entities found and, when there are any, the
\* relations touching their names, of the branch when a name is given.
searchEntitiesOf(found, branchName) ==
  LET b == IF Falsy(branchName) THEN [db |-> found.db, id |-> 0]
           ELSE getBranchId(found.db, branchName)
  IN IF found.entities = {}
     THEN [db |-> found.db, entities |-> {}, relations |-> {}]
     ELSE [db |-> b.db, entities |-> found.entities,
           relations |-> getRelationsForEntities(b.db, {e.name : e \in found.entities},
                                                 b.id)]

searchEntities(d, query, branchName, includeStatuses) ==
  CHOOSE graph \in {searchEntitiesOf(found, branchName) :
                      found \in {performSearch(d, query, branchName, includeStatuses)}} : TRUE

searchNodes(d, query, branchName, includeStatuses) ==
  searchEntities(d, query, branchName, includeStatuses)

(***************************************************************************)
(* SearchHandlers                                                          *)
(***************************************************************************)
\* The entities of the branch the similarity engine is asked about: those
\* not already among the results.
SimilarityCandidatesOf(searchResults, branch_name, include_statuses) ==
  LET graph == readGraph(searchResults.db, branch_name, include_statuses)
  IN {e.name : e \in {c \in graph.entities :
                        \A se \in searchResults.entities : se.name # c.name}}

SimilarityCandidates(d, query, branch_name, include_statuses) ==
  IF Falsy(query) \/ Falsy(branch_name) \/ branch_name = "*" THEN {}
  ELSE UNION {SimilarityCandidatesOf(searchResults, branch_name, include_statuses) :
                searchResults \in {searchNodes(d, query, branch_name, include_statuses)}}

\* The similarity expansion of handleSmartSearch: the entities `similar`
\* are opened in the branch and merged in by name, their relations by
\* (from, to, relationType).
enhanceWithSimilarity(searchResults, branch_name, include_statuses, similar) ==
  LET graph == readGraph(searchResults.db, branch_name, include_statuses)
      additionalResults == openNodes(graph.db, similar, branch_name, include_statuses)
      entityNames == {e.name : e \in searchResults.entities}
      newEntities == {e \in additionalResults.entities : e.name \notin entityNames}
      newRelations ==
        {r \in additionalResults.relations :
           ~ \E sr \in searchResults.relations :
               Triple(additionalResults.db, sr) = Triple(additionalResults.db, r)}
  IN IF searchResults.entities = {}
     THEN [db |-> searchResults.db, err |-> "",
           entities |-> searchResults.entities, relations |-> searchResults.relations]
     ELSE IF similar = {}
     THEN [db |-> graph.db, err |-> "",
           entities |-> searchResults.entities, relations |-> searchResults.relations]
     ELSE [db |-> additionalResults.db, err |-> "",
           entities |-> searchResults.entities \cup newEntities,
           relations |-> searchResults.relations \cup newRelations]

\* handleSmartSearch: query and branch_name are required; "*" searches
\* every branch and is not expanded; a named branch is searched and, when
\* there are results, expanded by the similarity engine.
handleSmartSearch(d, query, branch_name, include_statuses, similar) ==
  IF Falsy(query) \/ Falsy(branch_name)
  THEN [db |-> d, err |-> "Invalid", entities |-> {}, relations |-> {}]
  ELSE IF branch_name = "*"
  THEN CHOOSE result \in
         {[db |-> searchResults.db, err |-> "", entities |-> searchResults.entities,
           relations |-> searchResults.relations] :
            searchResults \in {searchNodes(d, query, Undefined, include_statuses)}} : TRUE
  ELSE CHOOSE result \in
         {enhanceWithSimilarity(searchResults, branch_name, include_statuses, similar) :
            searchResults \in {searchNodes(d, query, branch_name, include_statuses)}} : TRUE

\* BranchHandlers.handleReadMemoryBranch: the graph readGraph returns for
\* args.branch_name and args.include_statuses.
handleReadMemoryBranch(d, branch_name, include_statuses) ==
  readGraph(d, branch_name, include_statuses)

(***************************************************************************)
(* The background worker: RelationshipIndexer.  A BackgroundTask is its    *)
(* type, entityId and branchName; id, priority and createdAt are written   *)
(* and never read.  Of the index the entries (with the names suggested as  *)
(* relations) and the names per branch key are kept; typeIndices and       *)
(* keywordIndex are written and never read by the worker.  A call of       *)
(* processTaskQueue that waits for processTask is an element of `running`, *)
(* and `failed` says that the task finished last logged an error.          *)
(***************************************************************************)
IndexTask(type, entityId, branchName) ==
  [type |-> type, entityId |-> entityId, branchName |-> branchName]

\* The fields of a RelationshipIndexer after its constructor.
NewIndexer ==
  [taskQueue |-> <<>>, isProcessing |-> FALSE, running |-> EmptyBag,
   processingInterval |-> FALSE, entityIndex |-> {}, branchIndices |-> {},
   failed |-> FALSE]

\* queueTask: pushes the task at the tail unless the queue holds a task of
\* the same type, entityId and branchName.
queueTask(x, task) ==
  IF \E i \in DOMAIN x.taskQueue : x.taskQueue[i] = task
  THEN x
  ELSE [x EXCEPT !.taskQueue = Append(@, task)]

\* startBackgroundProcessing: setInterval(processTaskQueue, 2000).
startBackgroundProcessing(x) == [x EXCEPT !.processingInterval = TRUE]

\* initialize: starts the timer and queues the initial build.
initialize(x) ==
  queueTask(startBackgroundProcessing(x), IndexTask("cleanup_stale", Undefined, Undefined))

\* shutdown: clearInterval.
shutdown(x) == [x EXCEPT !.processingInterval = FALSE]

onEntityCreated(x, entityId, branchName) ==
  queueTask(x, IndexTask("index_entity", entityId, branchName))

\* processTaskQueue as it would be without the test of isProcessing.
processTaskQueue_NoGuard(x) ==
  IF x.taskQueue = <<>> THEN x
  ELSE [x EXCEPT !.isProcessing = TRUE,
                 !.taskQueue = Tail(@),
                 !.running = @ (+) SetToBag({Head(x.taskQueue)})]

\* processTaskQueue up to its await: returns when a task is in flight or
\* the queue is empty, else marks the worker busy and shifts the head of
\* the queue, which processTask is called with.
processTaskQueue(x) ==
  IF x.isProcessing \/ x.taskQueue = <<>> THEN x
  ELSE [x EXCEPT !.isProcessing = TRUE,
                 !.taskQueue = Tail(@),
                 !.running = @ (+) SetToBag({Head(x.taskQueue)})]

\* The end of processTaskQueue as it would be with isProcessing reset at
\* the end of the try block only.
processTaskQueueEnd_NoFinally(x, task, failed) ==
  [x EXCEPT !.isProcessing = failed,
            !.running = @ (-) SetToBag({task}),
            !.failed = failed]

\* processTaskQueue after its await: the error is logged if there is one
\* and the finally block marks the worker idle.
processTaskQueueEnd(x, task, failed) ==
  [x EXCEPT !.isProcessing = FALSE,
            !.running = @ (-) SetToBag({task}),
            !.failed = failed]

\* indexEntity as it would be without queueing detect_relationships.
indexEntity_NoDetect(d, x, entityId, branchName, throws) ==
  IF throws THEN [db |-> d, indexer |-> x, failed |-> TRUE]
  ELSE CHOOSE result \in
         {IF found.entities = {}
          THEN [db |-> found.db, indexer |-> x, failed |-> FALSE]
          ELSE LET entity == CHOOSE e \in found.entities : TRUE
                   x1 == [x EXCEPT
                            !.entityIndex = {i \in @ : i.entityId # entity.name}
                                              \cup {[entityId |-> entity.name,
                                                     suggestedRelations |-> {}]},
                            !.branchIndices = @ \cup {<<OrElse(branchName, "main"),
                                                        entity.name>>}]
               IN [db |-> found.db,
                   indexer |-> x1,
                   failed |-> FALSE] :
            found \in {openNodes(d, {entityId}, branchName, Undefined)}} : TRUE

\* indexEntity: opens the entity in the branch; when it is there, stores
\* its index entry with no suggestions, adds its name under the branch key
\* and queues detect_relationships.  An error, here one the first Store
\* call throws, is caught and logged.
indexEntity(d, x, entityId, branchName, throws) ==
  IF throws THEN [db |-> d, indexer |-> x, failed |-> TRUE]
  ELSE CHOOSE result \in
         {IF found.entities = {}
          THEN [db |-> found.db, indexer |-> x, failed |-> FALSE]
          ELSE LET entity == CHOOSE e \in found.entities : TRUE
                   x1 == [x EXCEPT
                            !.entityIndex = {i \in @ : i.entityId # entity.name}
                                              \cup {[entityId |-> entity.name,
                                                     suggestedRelations |-> {}]},
                            !.branchIndices = @ \cup {<<OrElse(branchName, "main"),
                                                        entity.name>>}]
               IN [db |-> found.db,
                   indexer |-> queueTask(x1, IndexTask("detect_relationships",
                                                       entityId, branchName)),
                   failed |-> FALSE] :
            found \in {openNodes(d, {entityId}, branchName, Undefined)}} : TRUE

\* detectRelationshipsForEntity: returns when the entity has no index entry,
\* is not in the branch, or is the only name under the branch key; else
\* opens the other names and replaces the suggestions of the entry by the
\* candidates the similarity engine rates high or medium, which are the
\* candidates whose name is in `similar`.
detectRelationshipsForEntity(d, x, entityId, branchName, throws, similar) ==
  IF ~ \E i \in x.entityIndex : i.entityId = entityId
  THEN [db |-> d, indexer |-> x, failed |-> FALSE]
  ELSE IF throws THEN [db |-> d, indexer |-> x, failed |-> TRUE]
  ELSE CHOOSE result \in
         {LET entityIds == {p[2] : p \in {q \in x.branchIndices :
                                            q[1] = OrElse(branchName, "main")}}
          IN IF targetEntities.entities = {} \/ Cardinality(entityIds) <= 1
             THEN [db |-> targetEntities.db, indexer |-> x, failed |-> FALSE]
             ELSE CHOOSE updated \in
                    {[db |-> candidateEntities.db,
                      indexer |-> [x EXCEPT !.entityIndex =
                         {i \in @ : i.entityId # entityId}
                           \cup {[entityId |-> entityId,
                                  suggestedRelations |->
                                    {c.name : c \in {e \in candidateEntities.entities :
                                                       e.name \in similar}}]}],
                      failed |-> FALSE] :
                       candidateEntities \in {openNodes(targetEntities.db, entityIds \ {entityId},
                                                        branchName, Undefined)}} : TRUE :
            targetEntities \in {openNodes(d, {entityId}, branchName, Undefined)}} : TRUE

\* The place of a branch name in listBranches' ORDER BY: main, then by name.
BranchOrder(name) ==
  CASE name = "main" -> 0
    [] name = "" -> 1
    [] name = "docs" -> 2
    [] OTHER -> 3

\* listBranches: the names of the branch rows, main first.
RECURSIVE listBranches(_)
listBranches(rows) ==
  IF rows = {} THEN <<>>
  ELSE LET b == CHOOSE r \in rows : \A o \in rows : BranchOrder(r.name) <= BranchOrder(o.name)
       IN <<b.name>> \o listBranches(rows \ {b})

\* The inner loop of buildInitialIndex: index_entity is queued for the
\* entities of the graph, which come in the order of their ids.
RECURSIVE queueEntities(_, _, _, _)
queueEntities(x, rows, ids, branchName) ==
  IF ids = <<>> THEN x
  ELSE queueEntities(queueTask(x, IndexTask("index_entity",
                                            (CHOOSE e \in rows : e.id = Head(ids)).name,
                                            branchName)),
                     rows, Tail(ids), branchName)

\* The outer loop of buildInitialIndex: readGraph of each branch, with no
\* branch name for main.
RECURSIVE buildInitialIndexLoop(_, _, _)
buildInitialIndexLoop(d, x, branches) ==
  IF branches = <<>> THEN [db |-> d, indexer |-> x, failed |-> FALSE]
  ELSE CHOOSE result \in
         {buildInitialIndexLoop(
            graph.db,
            queueEntities(x, graph.entities, Ascending({e.id : e \in graph.entities}),
                          IF Head(branches) = "main" THEN Undefined ELSE Head(branches)),
            Tail(branches)) :
            graph \in {readGraph(d, IF Head(branches) = "main" THEN Undefined
                                    ELSE Head(branches),
                                 <<"active", "draft">>)}} : TRUE

\* buildInitialIndex: an error, here one listBranches throws, is caught and
\* logged.
buildInitialIndex(d, x, throws) ==
  IF throws THEN [db |-> d, indexer |-> x, failed |-> TRUE]
  ELSE buildInitialIndexLoop(d, x, listBranches(d.memory_branches))

\* processTask: the switch on the type of the task.
processTask(d, x, task, throws, similar) ==
  CASE task.type = "index_entity" ->
         IF Falsy(task.entityId) THEN [db |-> d, indexer |-> x, failed |-> FALSE]
         ELSE indexEntity(d, x, task.entityId, task.branchName, throws)
    [] task.type = "detect_relationships" ->
         IF Falsy(task.entityId) THEN [db |-> d, indexer |-> x, failed |-> FALSE]
         ELSE detectRelationshipsForEntity(d, x, task.entityId, task.branchName,
                                           throws, similar)
    [] task.type = "cleanup_stale" -> buildInitialIndex(d, x, throws)

\* The loop of handleCreateEntities over the created entities: a relation
\* of type related_to is created to every other entity of the branch graph
\* that the similarity engine rates high, which are those with a name in
\* `similar`.
RECURSIVE autoRelationsLoop(_, _, _, _, _)
autoRelationsLoop(d, createdEntities, existingEntities, branchName, similar) ==
  IF createdEntities = <<>> THEN d
  ELSE LET newEntity == Head(createdEntities)
           ids == Ascending({e.id : e \in {o \in existingEntities :
                                             o.name # newEntity.name /\ o.name \in similar}})
           relationsToCreate ==
             [i \in DOMAIN ids |->
                [from |-> newEntity.name,
                 to |-> (CHOOSE e \in existingEntities : e.id = ids[i]).name,
                 relationType |-> "related_to"]]
       IN autoRelationsLoop(createRelations(d, relationsToCreate, branchName).db,
                            Tail(createdEntities), existingEntities, branchName, similar)

\* The notification at the end of the try block of handleCreateEntities.
RECURSIVE notifyIndexer(_, _, _)
notifyIndexer(x, createdEntities, branchName) ==
  IF createdEntities = <<>> THEN x
  ELSE notifyIndexer(onEntityCreated(x, Head(createdEntities).name, branchName),
                     Tail(createdEntities), branchName)

\* EntityHandlers.handleCreateEntities with args.branch_name given: the
\* entities are created; unless auto_create_relations is false the branch
\* is read, relations to the similar entities are created and the worker is
\* told of the created entities.  An error of the similarity engine, here
\* one at its first call, ends the try block.
handleCreateEntities(d, x, batch, branch_name, auto_create_relations, throws, similar) ==
  CHOOSE result \in
    {IF auto_create_relations = FALSE
     THEN [db |-> c.db, indexer |-> x, created |-> c.created]
     ELSE CHOOSE r \in
            {IF throws /\ c.created # <<>>
             THEN [db |-> branchGraph.db, indexer |-> x, created |-> c.created]
             ELSE [db |-> autoRelationsLoop(branchGraph.db, c.created,
                                            branchGraph.entities, branch_name, similar),
                   indexer |-> notifyIndexer(x, c.created, branch_name),
                   created |-> c.created] :
               branchGraph \in {readGraph(c.db, branch_name, <<"active", "draft">>)}} : TRUE :
       c \in {createEntities(d, batch, branch_name)}} : TRUE

(***************************************************************************)
(* HybridMemoryManager, its JSON fallback and the signal handlers of the   *)
(* server.  The manager is the flag migrationInProgress, the entities in   *)
(* the JSON files (branch key and entity), the number of backup files,     *)
(* whether the database connection is open, the place of performMigration  *)
(* (discover, migrate, done) with the branches of the files it discovered, *)
(* and the place of the signal handler: none (no signal yet),              *)
(* cleanupBackups, close and exit (the call it makes next), exited.        *)
(***************************************************************************)
\* cleanupBackups(5) in HybridMemoryManager.close.
KeepCount == 5

\* The manager after initialize() has returned.
NewManager ==
  [migrationInProgress |-> FALSE, migration |-> "done", memoryFiles |-> <<>>,
   json |-> {}, backups |-> 0, open |-> TRUE, signal |-> "none"]

\* The manager when initialize() has called performMigration, which awaits
\* discoverMemoryFiles: index.ts does not await initialize().
StartingManager ==
  [NewManager EXCEPT !.migrationInProgress = TRUE, !.migration = "discover"]

\* BackupOperations.createBackup: one more file.
createBackup(m) == [m EXCEPT !.backups = @ + 1]

\* cleanupBackups as it would be if it deleted no file.
cleanupBackups_KeepsAll(m, keepCount) == m

\* BackupOperations.cleanupBackups: the newest keepCount files stay.
cleanupBackups(m, keepCount) ==
  [m EXCEPT !.backups = IF @ > keepCount THEN keepCount ELSE @]

\* SQLiteConnection.close.
closeConnection(m) == [m EXCEPT !.open = FALSE]

\* JSONOperations.loadGraph: the entities of the file of the branch.
loadGraph(m, branchName) ==
  {row.entity : row \in {r \in m.json : r.branch = OrElse(branchName, "main")}}

\* The loop of JSONOperations.createEntities: a name the file of the branch
\* holds is skipped, the others are pushed.
RECURSIVE jsonCreateLoop(_, _)
jsonCreateLoop(graph, batch) ==
  IF batch = <<>> THEN [graph |-> graph, created |-> <<>>]
  ELSE LET entity == Head(batch)
       IN IF \E e \in graph : e.name = entity.name
          THEN jsonCreateLoop(graph, Tail(batch))
          ELSE LET rest == jsonCreateLoop(graph \cup {entity}, Tail(batch))
               IN [graph |-> rest.graph, created |-> <<entity>> \o rest.created]

\* JSONOperations.saveGraph: the file of the branch is written anew.
saveGraph(m, graph, branchName) ==
  [m EXCEPT !.json = {r \in @ : r.branch # OrElse(branchName, "main")}
                       \cup {[branch |-> OrElse(branchName, "main"), entity |-> e] :
                               e \in graph}]

\* JSONOperations.createEntities: loadGraph, the loop, saveGraph.
jsonCreateEntities(m, batch, branchName) ==
  LET r == jsonCreateLoop(loadGraph(m, branchName), batch)
  IN [manager |-> saveGraph(m, r.graph, branchName), created |-> r.created]

\* JSONOperations.deleteEntities.
jsonDeleteEntities(m, entityNames, branchName) ==
  saveGraph(m, {e \in loadGraph(m, branchName) : e.name \notin Range(entityNames)},
            branchName)

\* HybridMemoryManager.createEntities: the SQLite store, then a backup of
\* the exported branch; the JSON files while the migration is in progress.
\* What it returns is the names of the created entities.
hybridCreateEntities(d, m, batch, branchName) ==
  IF ~ m.migrationInProgress
  THEN CHOOSE result \in
         {[db |-> exportBranch(c.db, branchName).db, manager |-> createBackup(m),
           created |-> [i \in DOMAIN c.created |-> c.created[i].name]] :
            c \in {createEntities(d, batch, branchName)}} : TRUE
  ELSE CHOOSE result \in
         {[db |-> d, manager |-> j.manager,
           created |-> [i \in DOMAIN j.created |-> j.created[i].name]] :
            j \in {jsonCreateEntities(m, batch, branchName)}} : TRUE

\* HybridMemoryManager.deleteEntities.
hybridDeleteEntities(d, m, entityNames, branchName) ==
  IF ~ m.migrationInProgress
  THEN [db |-> deleteEntities(d, entityNames, branchName), manager |-> m]
  ELSE [db |-> d, manager |-> jsonDeleteEntities(m, entityNames, branchName)]

\* HybridMemoryManager.exportBranch: the names of the entities of the
\* branch, from the SQLite store or, while the migration is in progress,
\* from the JSON file.
hybridExportBranch(d, m, branchName) ==
  IF ~ m.migrationInProgress
  THEN CHOOSE result \in
         {[db |-> g.db, names |-> {e.name : e \in g.entities}] :
            g \in {exportBranch(d, branchName)}} : TRUE
  ELSE [db |-> d, names |-> {e.name : e \in loadGraph(m, branchName)}]

\* MigrationUtils.discoverMemoryFiles: the branches that have a file, main
\* first.
discoverMemoryFiles(m) ==
  SelectSeq(<<"main", "docs">>, LAMBDA b : \E r \in m.json : r.branch = b)

\* MigrationUtils.parseJsonMemoryFile: the entities of the file, in the
\* order of the file.
parseJsonMemoryFile(m, branch) ==
  LET graph == loadGraph(m, branch)
      names == SelectSeq(<<"Auth", "Cache">>, LAMBDA n : \E e \in graph : e.name = n)
  IN [entities |-> [i \in DOMAIN names |-> CHOOSE e \in graph : e.name = names[i]],
      relations |-> <<>>]

\* The loop of performMigration over the discovered files: a file that
\* holds entities is imported as it reads when its turn comes.
RECURSIVE migrateLoop(_, _, _)
migrateLoop(d, m, memoryFiles) ==
  IF memoryFiles = <<>> THEN d
  ELSE LET graph == parseJsonMemoryFile(m, Head(memoryFiles))
       IN migrateLoop(IF graph.entities # <<>>
                      THEN importData(d, graph, Head(memoryFiles))
                      ELSE d,
                      m, Tail(memoryFiles))

\* performMigration up to the return of discoverMemoryFiles: with no file
\* the migration is over.
performMigrationDiscover(m) ==
  LET memoryFiles == discoverMemoryFiles(m)
  IN IF memoryFiles = <<>>
     THEN [m EXCEPT !.migrationInProgress = FALSE, !.migration = "done"]
     ELSE [m EXCEPT !.memoryFiles = memoryFiles, !.migration = "migrate"]

\* The rest of performMigration: the loop and the finally block.
performMigrationFinish(d, m) ==
  [db |-> migrateLoop(d, m, m.memoryFiles),
   manager |-> [m EXCEPT !.migrationInProgress = FALSE, !.migration = "done",
                         !.memoryFiles = <<>>]]

(***************************************************************************)
(* The arguments the calls are made with.                                  *)
(***************************************************************************)
BranchNames == {"main", "docs"}
EntityNames == {"Auth", "Cache"}

Entity(name, entityType, obs, status, kws, refs) ==
  [name |-> name, entityType |-> entityType, observations |-> obs,
   status |-> status, keywords |-> kws, crossRefs |-> refs]

AuthEntity == Entity("Auth", "Service", <<"jwt tokens">>, Undefined, <<"Auth">>, <<>>)
CacheEntity ==
  Entity("Cache", "Service", <<>>, "deprecated", <<>>,
         <<[memoryBranch |-> "docs", entityNames |-> <<"Auth">>]>>)
PaddedAuthEntity == Entity(" Auth", Undefined, <<>>, "draft", <<"  ">>, <<>>)

EntityBatches ==
  { <<AuthEntity, CacheEntity>>, <<PaddedAuthEntity>> }

ObservedEntityBatches ==
  { <<Entity("Auth", "Service", <<"jwt tokens">>, Undefined, <<>>, <<>>)>>,
    <<Entity("Cache", "Service", <<"jwt tokens", "  ", "auth cache">>, Undefined, <<>>, <<>>),
      Entity("Auth", "Service", <<>>, Undefined, <<>>, <<>>)>> }

UpdateInputs ==
  { Entity("Auth", "Service", <<"auth cache", "jwt tokens">>, Undefined, <<>>, <<>>),
    Entity("Cache", "Service", <<"jwt tokens">>, "archived", <<>>, <<>>),
    Entity("Cache", "Service", <<>>, Undefined, <<>>, <<>>),
    Entity("Auth", "Service", <<"auth cache", Undefined>>, Undefined, <<>>, <<>>),
    Entity("Cache", "Service", <<"  ">>, Undefined, <<>>, <<>>) }

NameBatches == { <<"Auth">>, <<"Auth", "Cache">> }

ObservationBatches ==
  { <<[entityName |-> "Auth", contents |-> <<"auth cache">>]>>,
    <<[entityName |-> "Auth", contents |-> <<"", "jwt tokens">>]>>,
    <<[entityName |-> "Cache", contents |-> <<"jwt tokens">>],
      [entityName |-> "Auth", contents |-> <<"jwt tokens">>]>> }

DeletionBatches ==
  { <<[entityName |-> "Auth", observations |-> <<"jwt tokens">>]>>,
    <<[entityName |-> "Cache", observations |-> <<"auth cache", "jwt tokens">>]>> }

Relation(from, to, relationType) == [from |-> from, to |-> to, relationType |-> relationType]

RelationBatches ==
  { <<Relation("Auth", "Cache", "uses"), Relation("Auth", "Cache", "uses")>>,
    <<Relation("Auth", "Auth", "uses")>>,
    <<Relation("Auth", "", "uses"), Relation("Cache", "Auth", "uses")>> }

RelationDeletions ==
  { <<Relation("Cache", "Auth", "uses"), Relation("Auth", "Auth", "uses")>> }

CrossReferenceInputs ==
  { [entityName |-> "Auth", targetBranch |-> "docs", targetEntityNames |-> <<"Auth", "Cache">>,
     sourceBranch |-> "main"],
    [entityName |-> "Cache", targetBranch |-> "main", targetEntityNames |-> <<"Auth">>,
     sourceBranch |-> "docs"] }

(***************************************************************************)
(* The state after construction: initialize() has created the schema and   *)
(* seeded branch main with id 1.                                           *)
(***************************************************************************)
\* The last call and what it returned: the operation, the branch and the
\* names it was called with where they matter, the error it threw ("" for
\* none) and the value it returned.
Call(op, branch, args, err, out) ==
  [op |-> op, branch |-> branch, args |-> args, err |-> err, out |-> out]

NoCall == Call("none", Undefined, <<>>, "", <<>>)

\* A createEntities call in flight: the database call it makes next (pc),
\* the branch id it resolved, the entities of the batch still to create,
\* the result of the existence check, the id read back after the insert,
\* and the index of the next observation.
IdleTask == [pc |-> "idle", branchId |-> 0, batch |-> <<>>, existing |-> FALSE,
             entityRow |-> 0, i |-> 0]

Init ==
  /\ memory_branches = {[id |-> 1, name |-> "main"]}
  /\ entities = {}
  /\ observations = {}
  /\ relations = {}
  /\ keywords = {}
  /\ cross_references = {}
  /\ entities_fts = {}
  /\ sqlite_sequence = [memory_branches |-> 1, entities |-> 0, observations |-> 0,
                        keywords |-> 0, cross_references |-> 0]
  /\ ret = NoCall
  /\ tasks = EmptyBag
  /\ indexer = initialize(NewIndexer)
  /\ lag = {}
  /\ manager = NewManager

(***************************************************************************)
(* One call at a time: each action is a whole handler.                     *)
(***************************************************************************)
CreateEntitiesCall(batch, branch) ==
  LET r == createEntities(DB, batch, branch)
  IN /\ WithinBounds(r.db)
     /\ Commit(r.db)
     /\ ret' = Call("createEntities", Undefined, <<>>, "", <<>>)
     /\ UNCHANGED <<tasks, indexer, lag, manager>>

DeleteEntitiesCall(names, branch) ==
  LET d == deleteEntities(DB, names, branch)
  IN /\ WithinBounds(d)
     /\ Commit(d)
     /\ ret' = Call("deleteEntities", branch, names, "", <<>>)
     /\ UNCHANGED <<tasks, indexer, lag, manager>>

CreateEntities ==
  \E batch \in EntityBatches, branch \in BranchNames : CreateEntitiesCall(batch, branch)

DeleteEntities ==
  \E names \in NameBatches, branch \in BranchNames : DeleteEntitiesCall(names, branch)

CreateRelations ==
  \E rels \in RelationBatches, branch \in BranchNames :
    LET r == createRelations(DB, rels, branch)
    IN /\ WithinBounds(r.db)
       /\ Commit(r.db)
       /\ ret' = Call("createRelations", branch, rels, "", r.created)
       /\ UNCHANGED <<tasks, indexer, lag, manager>>

DeleteRelations ==
  \E rels \in RelationDeletions, branch \in BranchNames :
    LET d == deleteRelations(DB, rels, branch)
    IN /\ WithinBounds(d)
       /\ Commit(d)
       /\ ret' = Call("deleteRelations", Undefined, <<>>, "", <<>>)
       /\ UNCHANGED <<tasks, indexer, lag, manager>>

CreateCrossReference ==
  \E c \in CrossReferenceInputs :
    LET r == createCrossReference(DB, c.entityName, c.targetBranch, c.targetEntityNames,
                                  c.sourceBranch)
    IN /\ WithinBounds(r.db)
       /\ Commit(r.db)
       /\ ret' = Call("createCrossReference", Undefined, <<>>,
                      IF r.ok THEN "" ELSE "NotFound", <<>>)
       /\ UNCHANGED <<tasks, indexer, lag, manager>>

CreateBranch ==
  \E branch \in BranchNames :
    LET r == createBranch(DB, branch)
    IN /\ WithinBounds(r.db)
       /\ Commit(r.db)
       /\ ret' = Call("createBranch", branch, <<>>, r.err, <<>>)
       /\ UNCHANGED <<tasks, indexer, lag, manager>>

DeleteBranch ==
  \E branch \in BranchNames :
    LET r == deleteBranch(DB, branch)
    IN /\ WithinBounds(r.db)
       /\ Commit(r.db)
       /\ ret' = Call("deleteBranch", branch, <<>>, r.err, <<>>)
       /\ UNCHANGED <<tasks, indexer, lag, manager>>

\* The graph workload: entities, relations, cross-references and branches.
Next ==
  \/ CreateEntities
  \/ DeleteEntities
  \/ CreateRelations
  \/ DeleteRelations
  \/ CreateCrossReference
  \/ CreateBranch
  \/ DeleteBranch

Spec == Init /\ [][Next]_vars

(***************************************************************************)
(* The observation workload: the entities of branch main and their         *)
(* observations.                                                           *)
(***************************************************************************)
CreateObserved ==
  \E batch \in ObservedEntityBatches, branch \in {"main"} : CreateEntitiesCall(batch, branch)

DeleteObserved ==
  \E names \in {<<"Auth">>}, branch \in {"main"} : DeleteEntitiesCall(names, branch)

UpdateEntity ==
  \E entity \in UpdateInputs :
    LET r == updateEntity(DB, entity, "main")
    IN /\ WithinBounds(r.db)
       /\ Commit(r.db)
       /\ ret' = Call("updateEntity", Undefined, <<>>, r.err, <<>>)
       /\ UNCHANGED <<tasks, indexer, lag, manager>>

AddObservations ==
  \E items \in ObservationBatches :
    LET r == addObservations(DB, items, "main")
    IN /\ WithinBounds(r.db)
       /\ Commit(r.db)
       /\ ret' = Call("addObservations", Undefined, <<>>, "", <<>>)
       /\ UNCHANGED <<tasks, indexer, lag, manager>>

DeleteObservations ==
  \E deletions \in DeletionBatches :
    LET d == deleteObservations(DB, deletions, "main")
    IN /\ WithinBounds(d)
       /\ Commit(d)
       /\ ret' = Call("deleteObservations", Undefined, <<>>, "", <<>>)
       /\ UNCHANGED <<tasks, indexer, lag, manager>>

NextObs ==
  \/ CreateObserved
  \/ DeleteObserved
  \/ UpdateEntity
  \/ AddObservations
  \/ DeleteObservations

SpecObs == Init /\ [][NextObs]_vars

(***************************************************************************)
(* Concurrent createEntities calls.  Every database call is awaited, so a  *)
(* call in flight gives way to the other calls after each one; a step of   *)
(* a task is one database call of createEntities / createSingleEntity.     *)
(***************************************************************************)
ConcurrentBatches ==
  { <<Entity("Auth", "Service", <<"jwt tokens">>, Undefined, <<>>, <<>>)>>,
    <<Entity(" Auth", "Service", <<>>, Undefined, <<>>, <<>>)>> }

\* The createEntities calls in flight are a bag: a call is its position in
\* createSingleEntity and what it has read so far.
Resume(task, next) == (tasks (-) SetToBag({task})) (+) SetToBag({next})

Finish(task) == tasks (-) SetToBag({task})

\* createEntities is called: getBranchId runs, then the loop starts.
StartCreateEntities ==
  /\ BagCardinality(tasks) < NumTasks
  /\ \E batch \in ConcurrentBatches, branch \in BranchNames :
       LET b == getBranchId(DB, branch)
       IN /\ WithinBounds(b.db)
          /\ Commit(b.db)
          /\ tasks' = tasks (+) SetToBag({[IdleTask EXCEPT !.pc = "check",
                                                            !.branchId = b.id,
                                                            !.batch = batch]})
  /\ UNCHANGED <<ret, indexer, lag, manager>>

\* The task after createSingleEntity has returned or thrown for the head of
\* the batch: the loop goes to the next entity, or createEntities returns.
NextEntity(task) ==
  IF Len(task.batch) > 1
  THEN [task EXCEPT !.pc = "check", !.batch = Tail(@), !.existing = FALSE,
                    !.entityRow = 0, !.i = 0]
  ELSE IdleTask

\* The step of a call that leaves it as `next`: the call goes on, or it has
\* returned and the caller has its result.
Continue(task, next) ==
  IF next.pc = "idle"
  THEN /\ tasks' = Finish(task)
       /\ ret' = Call("createEntities", Undefined, <<>>, "", <<>>)
       /\ UNCHANGED <<indexer, lag, manager>>
  ELSE /\ tasks' = Resume(task, next)
       /\ UNCHANGED <<ret, indexer, lag, manager>>

\* SELECT id FROM entities WHERE name = ? AND branch_id = ? (the check).
CheckExisting ==
  \E task \in BagToSet(tasks) :
    /\ task.pc = "check"
    /\ tasks' = Resume(task, [task EXCEPT
                                !.pc = "insert",
                                !.existing = EntityRows(DB, validName(Head(task.batch)),
                                                        task.branchId) # {}])
    /\ UNCHANGED <<storeVars, ret, indexer, lag, manager>>

\* The check found a row: createSingleEntity throws.  Else INSERT INTO
\* entities, which throws when a constraint fails.
InsertEntityStep ==
  \E task \in BagToSet(tasks) :
    /\ task.pc = "insert"
    /\ LET entity == Head(task.batch)
           r == InsertEntity(DB, validName(entity), validEntityType(entity), task.branchId,
                             OrElse(entity.status, "active"), originalContent(entity))
       IN IF task.existing
          THEN /\ Continue(task, NextEntity(task))
               /\ UNCHANGED storeVars
          ELSE /\ WithinBounds(r.db)
               /\ Commit(r.db)
               /\ Continue(task, IF r.ok THEN [task EXCEPT !.pc = "select"]
                                 ELSE NextEntity(task))

\* SELECT id FROM entities WHERE name = ? AND branch_id = ? (the read-back).
SelectEntityRow ==
  \E task \in BagToSet(tasks) :
    /\ task.pc = "select"
    /\ tasks' = Resume(task, [task EXCEPT
                                !.pc = "observe",
                                !.entityRow = EntityId(DB, validName(Head(task.batch)),
                                                       task.branchId)])
    /\ UNCHANGED <<storeVars, ret, indexer, lag, manager>>

\* INSERT INTO observations for validObservations[i]; after the last one
\* the keywords and cross-references are stored and createSingleEntity
\* returns.  entityRow.id throws when the read-back found no row, and the
\* INSERT throws when the entity is gone.
InsertObservationStep ==
  \E task \in BagToSet(tasks) :
    /\ task.pc = "observe"
    /\ LET entity == Head(task.batch)
           obs == validObservations(entity)
           r == InsertObservation(DB, task.entityRow, obs[task.i + 1], task.i)
           k == insertKeywordsLoop(DB, task.entityRow, entity.keywords)
           refs == IF entity.crossRefs = <<>> THEN k.db
                   ELSE crossRefsLoop(k.db, validName(entity), entity.crossRefs,
                                      getBranchName(k.db, task.branchId))
       IN IF task.i < Len(obs)
          THEN /\ WithinBounds(r.db)
               /\ Commit(r.db)
               /\ Continue(task, IF r.ok THEN [task EXCEPT !.i = @ + 1]
                                 ELSE NextEntity(task))
          ELSE /\ WithinBounds(refs)
               /\ Commit(refs)
               /\ Continue(task, NextEntity(task))

\* A deleteEntities call between the steps of the calls in flight.
DeleteConcurrently ==
  \E names \in {<<"Auth">>}, branch \in {"main"} : DeleteEntitiesCall(names, branch)

NextConc ==
  \/ StartCreateEntities
  \/ CheckExisting
  \/ InsertEntityStep
  \/ SelectEntityRow
  \/ InsertObservationStep
  \/ DeleteConcurrently

SpecConc == Init /\ [][NextConc]_vars

(***************************************************************************)
(* The search workload: entities and relations in two branches, searched   *)
(* through searchNodes and through the smart_search handler.               *)
(***************************************************************************)
SearchableBatches ==
  { <<AuthEntity>>,
    <<Entity("Auth", "Service", <<"auth cache">>, Undefined, <<>>, <<>>),
      Entity("Cache", Undefined, <<"jwt tokens">>, "deprecated", <<>>, <<>>)>> }

Queries == {"auth-auth", "jwt the cache", "a of"}

SmartQueries == {"", "Auth", "jwt the cache"}

StatusFilters == {Undefined, <<"active", "deprecated">>}

SmartStatusFilters == {Undefined, <<>>, <<"deprecated">>}

CreateSearchable ==
  \E batch \in SearchableBatches, branch \in BranchNames : CreateEntitiesCall(batch, branch)

SearchableRelations ==
  { <<Relation("Auth", "Cache", "uses")>>, <<Relation("Auth", "Auth", "uses")>> }

RelateSearchable ==
  \E rels \in SearchableRelations, branch \in BranchNames :
    LET r == createRelations(DB, rels, branch)
    IN /\ WithinBounds(r.db)
       /\ Commit(r.db)
       /\ ret' = Call("createRelations", Undefined, <<>>, "", <<>>)
       /\ UNCHANGED <<tasks, indexer, lag, manager>>

SearchNodes ==
  \E query \in Queries, branch \in BranchNames \cup {Undefined, "*"},
     statuses \in StatusFilters :
    \E r \in {searchNodes(DB, query, branch, statuses)} :
       /\ WithinBounds(r.db)
       /\ Commit(r.db)
       /\ ret' = Call("searchNodes", branch, {}, "",
                      [entities |-> r.entities, relations |-> r.relations,
                       statuses |-> statuses])
       /\ UNCHANGED <<tasks, indexer, lag, manager>>

\* smart_search; `similar` is what the similarity engine matches: any of
\* the candidates it is given.
SmartSearch ==
  \E query \in SmartQueries, branch \in BranchNames \cup {Undefined, "*"},
     statuses \in SmartStatusFilters :
    \E similar \in SUBSET SimilarityCandidates(DB, query, branch, statuses) :
      \E r \in {handleSmartSearch(DB, query, branch, statuses, similar)} :
         /\ WithinBounds(r.db)
         /\ Commit(r.db)
         /\ ret' = Call("smart_search", branch, similar, r.err,
                        [entities |-> r.entities, relations |-> r.relations,
                         statuses |-> statuses])
         /\ UNCHANGED <<tasks, indexer, lag, manager>>

\* read_memory_branch with its optional branch_name and include_statuses.
ReadMemoryBranch ==
  \E branch \in BranchNames \cup {Undefined}, statuses \in SmartStatusFilters :
    \E r \in {handleReadMemoryBranch(DB, branch, statuses)} :
       /\ WithinBounds(r.db)
       /\ Commit(r.db)
       /\ ret' = Call("read_memory_branch", branch, {}, "",
                      [entities |-> r.entities, relations |-> r.relations,
                       statuses |-> statuses])
       /\ UNCHANGED <<tasks, indexer, lag, manager>>

NextSearch ==
  \/ CreateSearchable
  \/ RelateSearchable
  \/ SearchNodes
  \/ SmartSearch
  \/ ReadMemoryBranch

SpecSearch == Init /\ [][NextSearch]_vars

(***************************************************************************)
(* The export workload: entities and relations of branch main, branches    *)
(* created by name, and the round trip of main through a fresh branch.     *)
(***************************************************************************)
NamedBatches ==
  { <<Entity("Auth", "Service", <<"jwt|">>, Undefined, <<>>, <<>>)>>,
    <<Entity("Cache", Undefined, <<"auth|cache">>, "deprecated", <<>>, <<>>)>>,
    <<Entity("", "Service", <<>>, Undefined, <<>>, <<>>),
      Entity("Auth", "Service", <<"jwt tokens">>, Undefined, <<>>, <<>>)>>,
    <<Entity("  ", Undefined, <<"jwt tokens">>, "draft", <<>>, <<>>)>> }

NamedBranches == {"", "docs"}

CreateNamed ==
  \E batch \in NamedBatches :
    \E r \in {createEntities(DB, batch, "main")} :
       /\ WithinBounds(r.db)
       /\ Commit(r.db)
       /\ ret' = Call("createEntities", "main", batch, "", r.created)
       /\ UNCHANGED <<tasks, indexer, lag, manager>>

RelateNamed ==
  \E r \in {createRelations(DB, <<Relation("Auth", "Auth", "uses")>>, "main")} :
     /\ WithinBounds(r.db)
     /\ Commit(r.db)
     /\ ret' = Call("createRelations", "main", <<Relation("Auth", "Auth", "uses")>>,
                    "", r.created)
     /\ UNCHANGED <<tasks, indexer, lag, manager>>

CreateBranchNamed ==
  \E branch \in NamedBranches :
    \E r \in {createBranch(DB, branch)} :
       /\ WithinBounds(r.db)
       /\ Commit(r.db)
       /\ ret' = Call("createBranch", branch, <<>>, r.err, <<>>)
       /\ UNCHANGED <<tasks, indexer, lag, manager>>

\* What a caller reads of a KnowledgeGraph: the entities by name, type,
\* status and observation list, and the relations.
GraphOf(g) ==
  [entities |-> {[name |-> e.name, entityType |-> e.entityType, status |-> e.status,
                  observations |-> e.observations] : e \in Range(g.entities)},
   relations |-> Range(g.relations)]

\* importData(exportBranch("main"), "docs") followed by exportBranch("docs"),
\* for a branch docs that holds no entity.
RoundTrip ==
  /\ \A e \in entities : \A b \in BranchRows(DB, "docs") : e.branch_id # b.id
  /\ \E exported \in {exportGraph(DB, "main")} :
       \E imported \in {importData(exported.db, exported, "docs")} :
         \E again \in {exportGraph(imported, "docs")} :
            /\ WithinBounds(again.db)
            /\ Commit(again.db)
            /\ ret' = Call("importData", "docs", <<>>, "",
                           [exported |-> GraphOf(exported), again |-> GraphOf(again)])
            /\ UNCHANGED <<tasks, indexer, lag, manager>>

NextExport ==
  \/ CreateNamed
  \/ RelateNamed
  \/ CreateBranchNamed
  \/ RoundTrip

SpecExport == Init /\ [][NextExport]_vars

(***************************************************************************)
(* The ranking workload: entities with and without keywords, searched by   *)
(* searchNodes, whose result is kept with the relevance scores it was      *)
(* sorted by.                                                              *)
(***************************************************************************)
RankedBatches ==
  { <<Entity("Auth", "Service", <<>>, Undefined, <<>>, <<>>)>>,
    <<Entity("Cache", "Service", <<"auth cache">>, Undefined, <<"auth">>, <<>>)>>,
    <<Entity("Cache", "Service", <<"jwt tokens">>, Undefined, <<>>, <<>>)>>,
    <<Entity("Auth", "Unknown", <<"jwt tokens">>, Undefined, <<>>, <<>>)>> }

RankedQueries == {"auth-auth", "jwt the cache"}

CreateRanked ==
  \E batch \in RankedBatches, branch \in BranchNames : CreateEntitiesCall(batch, branch)

DeleteRanked ==
  \E branch \in BranchNames : DeleteEntitiesCall(<<"Auth", "Cache">>, branch)

SearchRanked ==
  \E query \in RankedQueries, branch \in BranchNames :
    \E r \in {searchNodes(DB, query, branch, Undefined)} :
      \E scores \in {relevanceScores(DB, query, branch, Undefined)} :
         /\ WithinBounds(r.db)
         /\ Commit(r.db)
         /\ ret' = Call("searchNodes", branch, prepareSearchTerms(query), "",
                        [entities |-> r.entities, relations |-> r.relations,
                         statuses |-> Undefined, scores |-> scores])
         /\ UNCHANGED <<tasks, indexer, lag, manager>>

NextRank ==
  \/ CreateRanked
  \/ DeleteRanked
  \/ SearchRanked

SpecRank == Init /\ [][NextRank]_vars

(***************************************************************************)
(* The worker beside the foreground calls: create_entities requests with a *)
(* branch name, deletions, the ticks of the timer and the completion of    *)
(* the task in flight.  `lag` watches one entity at a time from the        *)
(* queueing of its index_entity task to the end of its detect_relationships*)
(* run, and counts the tasks started since the task was queued.            *)
(***************************************************************************)
IndexedBatches ==
  { <<Entity("Auth", "Service", <<>>, Undefined, <<>>, <<>>)>>,
    <<Entity("Cache", "Service", <<>>, Undefined, <<>>, <<>>)>> }

\* What the similarity engine rates similar: nothing, or every candidate.
SimilarityOutcomes == {{}, EntityNames}

\* The worker may create the branch of a task once more than the calls.
WithinWorkerBounds(d) ==
  /\ d.sqlite_sequence.memory_branches <= MaxWorkerBranchId
  /\ d.sqlite_sequence.entities <= MaxEntityId

\* The entity watched while it waits for its suggestions: when none is
\* watched, one of those whose index_entity task x2 holds and x did not.
Track(l, x, x2) ==
  LET queued == {q \in Range(x2.taskQueue) \ Range(x.taskQueue) : q.type = "index_entity"}
  IN IF l # {} \/ queued = {} THEN l
     ELSE {[entityId |-> t.entityId, branchName |-> t.branchName, slots |-> 0] :
             t \in {CHOOSE q \in queued : TRUE}}

\* A task has started: one more slot for everyone waiting.
Slot(l) == {[o EXCEPT !.slots = IF @ < MaxLag THEN @ + 1 ELSE @] : o \in l}

\* A task has finished: the entity of a detect_relationships run waits no
\* longer, nor does that of an index_entity run that queued no detection.
Settle(l, x2, task) ==
  IF \/ task.type = "detect_relationships"
     \/ /\ task.type = "index_entity"
        /\ IndexTask("detect_relationships", task.entityId, task.branchName)
             \notin Range(x2.taskQueue)
  THEN {o \in l : ~ (o.entityId = task.entityId /\ o.branchName = task.branchName)}
  ELSE l

\* The process runs until a signal handler has called process.exit.
Serving == manager.signal # "exited"

\* A create_entities request for branch docs; what it answers is not
\* recorded.
HandleCreateEntities ==
  /\ Serving
  /\ \E batch \in IndexedBatches, auto_create_relations \in BOOLEAN, throws \in BOOLEAN,
        similar \in SimilarityOutcomes :
       \E r \in {handleCreateEntities(DB, indexer, batch, "docs", auto_create_relations,
                                      throws, similar)} :
         /\ WithinBounds(r.db)
         /\ Commit(r.db)
         /\ indexer' = r.indexer
         /\ lag' = Track(lag, indexer, r.indexer)
         /\ UNCHANGED <<ret, tasks, manager>>

DeleteIndexed ==
  /\ Serving
  /\ \E names \in {<<"Auth">>, <<"Cache">>} :
       \E d \in {deleteEntities(DB, names, "docs")} :
         /\ WithinBounds(d)
         /\ Commit(d)
         /\ UNCHANGED <<ret, tasks, indexer, lag, manager>>

DeleteIndexedBranch ==
  /\ Serving
  /\ \E r \in {deleteBranch(DB, "docs")} :
       /\ WithinBounds(r.db)
       /\ Commit(r.db)
       /\ ret' = Call("deleteBranch", "docs", <<>>, r.err, <<>>)
       /\ UNCHANGED <<tasks, indexer, lag, manager>>

\* The timer fires: processTaskQueue runs up to its await.
Tick ==
  /\ Serving
  /\ indexer.processingInterval
  /\ indexer' = processTaskQueue(indexer)
  /\ lag' = IF indexer'.running = indexer.running THEN lag ELSE Slot(lag)
  /\ UNCHANGED <<storeVars, ret, tasks, manager>>

\* processTask returns for a task in flight and processTaskQueue ends.  A
\* call to a closed connection throws.
CompleteTask ==
  /\ Serving
  /\ \E task \in BagToSet(indexer.running), throws \in BOOLEAN,
        similar \in SimilarityOutcomes :
       \E r \in {processTask(DB, indexer, task, throws, similar)} :
         /\ manager.open \/ throws
         /\ WithinWorkerBounds(r.db)
         /\ Commit(r.db)
         /\ indexer' = processTaskQueueEnd(r.indexer, task, r.failed)
         /\ lag' = Settle(Track(lag, indexer, r.indexer), r.indexer, task)
         /\ UNCHANGED <<ret, tasks, manager>>

\* SIGINT or SIGTERM with no call in between: the timer is cleared, the
\* manager is closed and the process exits.
Shutdown ==
  /\ manager.signal = "none"
  /\ indexer' = shutdown(indexer)
  /\ manager' = [closeConnection(cleanupBackups(manager, KeepCount))
                   EXCEPT !.signal = "exited"]
  /\ UNCHANGED <<storeVars, ret, tasks, lag>>

NextIndexer ==
  \/ HandleCreateEntities
  \/ DeleteIndexed
  \/ DeleteIndexedBranch
  \/ Tick
  \/ CompleteTask
  \/ Shutdown

SpecIndexer == Init /\ [][NextIndexer]_vars

(***************************************************************************)
(* The signal handlers of the server, call by call: another request or a   *)
(* step of the worker may run at each await of the handler.                *)
(***************************************************************************)
\* A create_entities request for branch docs once the migration is over:
\* the manager backs the branch up after the store has created the entities.
ManagedCreateEntities ==
  /\ Serving
  /\ manager.open
  /\ ~ manager.migrationInProgress
  /\ manager.backups < MaxBackups
  /\ \E batch \in IndexedBatches, similar \in SimilarityOutcomes :
       \E r \in {handleCreateEntities(DB, indexer, batch, "docs", TRUE, FALSE,
                                      similar)} :
         /\ WithinBounds(r.db)
         /\ Commit(r.db)
         /\ indexer' = r.indexer
         /\ manager' = createBackup(manager)
         /\ UNCHANGED <<ret, tasks, lag>>

\* SIGINT or SIGTERM arrives: relationshipIndexer.shutdown() runs and
\* memoryManager.close() is called, up to its first await.
Signal ==
  /\ manager.signal = "none"
  /\ indexer' = shutdown(indexer)
  /\ manager' = [manager EXCEPT !.signal = "cleanupBackups"]
  /\ UNCHANGED <<storeVars, ret, tasks, lag>>

\* backupOps.cleanupBackups(5) has finished.
CleanupBackups ==
  /\ manager.signal = "cleanupBackups"
  /\ manager' = [cleanupBackups(manager, KeepCount) EXCEPT !.signal = "close"]
  /\ UNCHANGED <<storeVars, ret, tasks, indexer, lag>>

\* sqliteOps.close() has finished.
CloseStore ==
  /\ manager.signal = "close"
  /\ manager' = [closeConnection(manager) EXCEPT !.signal = "exit"]
  /\ UNCHANGED <<storeVars, ret, tasks, indexer, lag>>

\* jsonOps.close() has finished and process.exit(0) is called.
Exit ==
  /\ manager.signal = "exit"
  /\ manager' = [manager EXCEPT !.signal = "exited"]
  /\ UNCHANGED <<storeVars, ret, tasks, indexer, lag>>

NextShutdown ==
  \/ ManagedCreateEntities
  \/ Tick
  \/ CompleteTask
  \/ Signal
  \/ CleanupBackups
  \/ CloseStore
  \/ Exit

SpecShutdown == Init /\ [][NextShutdown]_vars

(***************************************************************************)
(* The server while HybridMemoryManager.initialize() is still running:     *)
(* requests are answered from the JSON files until performMigration has    *)
(* reset migrationInProgress.                                              *)
(***************************************************************************)
InitStartup ==
  /\ memory_branches = {[id |-> 1, name |-> "main"]}
  /\ entities = {}
  /\ observations = {}
  /\ relations = {}
  /\ keywords = {}
  /\ cross_references = {}
  /\ entities_fts = {}
  /\ sqlite_sequence = [memory_branches |-> 1, entities |-> 0, observations |-> 0,
                        keywords |-> 0, cross_references |-> 0]
  /\ ret = NoCall
  /\ tasks = EmptyBag
  /\ indexer = initialize(NewIndexer)
  /\ lag = {}
  /\ manager = StartingManager

\* memoryManager.createEntities.
StartupCreate ==
  \E batch \in IndexedBatches, branch \in BranchNames :
    \E r \in {hybridCreateEntities(DB, manager, batch, branch)} :
      /\ WithinBounds(r.db)
      /\ r.manager.backups <= MaxBackups
      /\ Commit(r.db)
      /\ manager' = r.manager
      /\ ret' = Call("createEntities", branch, batch, "", r.created)
      /\ UNCHANGED <<tasks, indexer, lag>>

\* memoryManager.deleteEntities.
StartupDelete ==
  \E names \in {<<"Auth">>, <<"Cache">>}, branch \in BranchNames :
    \E r \in {hybridDeleteEntities(DB, manager, names, branch)} :
      /\ WithinBounds(r.db)
      /\ Commit(r.db)
      /\ manager' = r.manager
      /\ ret' = Call("deleteEntities", branch, names, "", <<>>)
      /\ UNCHANGED <<tasks, indexer, lag>>

\* discoverMemoryFiles returns to performMigration.
DiscoverMemoryFiles ==
  /\ manager.migration = "discover"
  /\ manager' = performMigrationDiscover(manager)
  /\ UNCHANGED <<storeVars, ret, tasks, indexer, lag>>

\* performMigration imports the discovered files and ends.
MigrateFiles ==
  /\ manager.migration = "migrate"
  /\ \E r \in {performMigrationFinish(DB, manager)} :
       /\ WithinBounds(r.db)
       /\ Commit(r.db)
       /\ manager' = r.manager
       /\ UNCHANGED <<ret, tasks, indexer, lag>>

NextStartup ==
  \/ StartupCreate
  \/ StartupDelete
  \/ DiscoverMemoryFiles
  \/ MigrateFiles

SpecStartup == InitStartup /\ [][NextStartup]_vars

(***************************************************************************)
(* Statuses: entities are created through the handler and their status is  *)
(* changed.                                                                *)
(***************************************************************************)
StatusBatches ==
  { <<Entity("Auth", "Service", <<"jwt|">>, Undefined, <<>>, <<>>)>>,
    <<Entity("Cache", "Service", <<"jwt tokens">>, Undefined, <<>>, <<>>)>> }

\* A create_entities request with branch_name and automatic relations.
StatusCreate ==
  \E batch \in StatusBatches, branch \in BranchNames, similar \in SimilarityOutcomes :
    \E r \in {handleCreateEntities(DB, indexer, batch, branch, TRUE, FALSE, similar)} :
      /\ WithinBounds(r.db)
      /\ Commit(r.db)
      /\ indexer' = r.indexer
      /\ ret' = Call("createEntities", branch, batch, "", r.created)
      /\ UNCHANGED <<tasks, lag, manager>>

\* memoryManager.updateEntityStatus, with and without a branch.
UpdateEntityStatus ==
  \E name \in EntityNames, status \in {"deprecated", "active"},
     branch \in BranchNames \cup {Undefined} :
    \E r \in {updateEntityStatus(DB, name, status, branch)} :
      /\ WithinBounds(r.db)
      /\ Commit(r.db)
      /\ ret' = Call("updateEntityStatus", branch, <<name, status>>, r.err, <<>>)
      /\ UNCHANGED <<tasks, indexer, lag, manager>>

NextStatus ==
  \/ StatusCreate
  \/ UpdateEntityStatus

SpecStatus == Init /\ [][NextStatus]_vars

(***************************************************************************)
(* Concurrent addObservations calls, each with one item: a step of a call  *)
(* is one awaited database call.  The caller's record keeps the items of   *)
(* the calls begun since no call was in flight, and the store as it was    *)
(* then.                                                                   *)
(***************************************************************************)
AppendSeeds ==
  { <<Entity("Auth", "Service", <<"jwt tokens", "auth cache">>, Undefined, <<>>, <<>>)>>,
    <<Entity("Auth", "Service", <<>>, Undefined, <<>>, <<>>)>> }

AppendItems ==
  { [entityName |-> "Auth", contents |-> <<"auth cache">>],
    [entityName |-> "Auth", contents |-> <<"  ", "jwt tokens">>] }

\* An addObservations call in flight: the database call it makes next
\* (pc), the branch id, its item, the entity id and the startSeq it has
\* read, and the index of the next content.
AppendTask(branchId, item) ==
  [pc |-> "find", branchId |-> branchId, item |-> item, entityId |-> 0,
   startSeq |-> 0, i |-> 0]

\* A createEntities call while no addObservations call is in flight.
SeedEntity ==
  /\ tasks = EmptyBag
  /\ \E batch \in AppendSeeds :
       \E r \in {createEntities(DB, batch, "main")} :
         /\ WithinBounds(r.db)
         /\ Commit(r.db)
         /\ ret' = Call("createEntities", "main", batch, "", <<>>)
         /\ UNCHANGED <<tasks, indexer, lag, manager>>

\* addObservations is called: getBranchId runs, then the loop starts.
StartAddObservations ==
  /\ BagCardinality(tasks) < NumTasks
  /\ \E item \in AppendItems :
       \E b \in {getBranchId(DB, "main")} :
         /\ tasks = EmptyBag \/ Len(ret.args) < NumTasks
         /\ WithinBounds(b.db)
         /\ Commit(b.db)
         /\ tasks' = tasks (+) SetToBag({AppendTask(b.id, item)})
         /\ ret' = IF tasks = EmptyBag
                   THEN Call("addObservations", "main", <<item>>, "", <<DB>>)
                   ELSE [ret EXCEPT !.args = Append(@, item)]
         /\ UNCHANGED <<indexer, lag, manager>>

\* SELECT id FROM entities WHERE name = ? AND branch_id = ?: the call goes
\* to the next item, here returns, when there is no such entity.
FindEntityStep ==
  \E task \in BagToSet(tasks) :
    /\ task.pc = "find"
    /\ \E id \in {EntityId(DB, task.item.entityName, task.branchId)} :
         tasks' = IF id = 0 THEN Finish(task)
                  ELSE Resume(task, [task EXCEPT !.pc = "max", !.entityId = id])
    /\ UNCHANGED <<storeVars, ret, indexer, lag, manager>>

\* SELECT COALESCE(MAX(sequence_order), -1) and the computation of startSeq.
MaxSequenceStep ==
  \E task \in BagToSet(tasks) :
    /\ task.pc = "max"
    /\ tasks' = Resume(task, [task EXCEPT
                                !.pc = "insert",
                                !.startSeq = startSeq(MaxSequenceOrder(DB, task.entityId))])
    /\ UNCHANGED <<storeVars, ret, indexer, lag, manager>>

\* The content loop up to its next INSERT INTO observations, or past its
\* end: blank contents are passed over.
InsertContentStep ==
  \E task \in BagToSet(tasks) :
    /\ task.pc = "insert"
    /\ LET rest == {j \in (task.i + 1)..Len(task.item.contents) :
                      IsValidObservation(task.item.contents[j])}
       IN IF rest = {}
          THEN /\ tasks' = Resume(task, [task EXCEPT !.pc = "touch"])
               /\ UNCHANGED storeVars
          ELSE \E j \in {CHOOSE k \in rest : \A l \in rest : k <= l} :
                 \E r \in {InsertObservation(DB, task.entityId, task.item.contents[j],
                                             task.startSeq + (j - 1))} :
                   /\ WithinBounds(r.db)
                   /\ Commit(r.db)
                   /\ tasks' = IF r.ok THEN Resume(task, [task EXCEPT !.i = j])
                                ELSE Finish(task)
    /\ UNCHANGED <<ret, indexer, lag, manager>>

\* UPDATE entities SET updated_at; the call returns.
TouchEntityStep ==
  \E task \in BagToSet(tasks) :
    /\ task.pc = "touch"
    /\ tasks' = Finish(task)
    /\ UNCHANGED <<storeVars, ret, indexer, lag, manager>>

NextAppend ==
  \/ SeedEntity
  \/ StartAddObservations
  \/ FindEntityStep
  \/ MaxSequenceStep
  \/ InsertContentStep
  \/ TouchEntityStep

SpecAppend == Init /\ [][NextAppend]_vars

(***************************************************************************)
(* The worker over two branches, with a similarity engine that rates every *)
(* candidate similar with high confidence and never fails.                 *)
(***************************************************************************)
\* A create_entities request for one of the branches.
CreateInBranch ==
  \E batch \in IndexedBatches, branch \in BranchNames, auto_create_relations \in BOOLEAN :
    \E r \in {handleCreateEntities(DB, indexer, batch, branch, auto_create_relations,
                                   FALSE, EntityNames)} :
      /\ WithinBounds(r.db)
      /\ Commit(r.db)
      /\ indexer' = r.indexer
      /\ UNCHANGED <<ret, tasks, lag, manager>>

\* processTask returns for the task in flight and processTaskQueue ends.
CompleteSimilarTask ==
  \E task \in BagToSet(indexer.running) :
    \E r \in {processTask(DB, indexer, task, FALSE, EntityNames)} :
      /\ WithinWorkerBounds(r.db)
      /\ Commit(r.db)
      /\ indexer' = processTaskQueueEnd(r.indexer, task, r.failed)
      /\ UNCHANGED <<ret, tasks, lag, manager>>

NextBranches ==
  \/ CreateInBranch
  \/ Tick
  \/ CompleteSimilarTask

SpecBranches == Init /\ [][NextBranches]_vars

(***************************************************************************)
(* Properties                                                              *)
(***************************************************************************)
\* The rows of branch `name`, by the tables that carry a branch id.
BranchIds(name) == {b.id : b \in {x \in memory_branches : x.name = name}}

\* C1: in every reachable state, including those reached by interleaved
\* concurrent createEntities calls, no two entities stored in the same
\* branch have the same name.
C1_NamesUniquePerBranch ==
  \A e1, e2 \in entities :
    (e1.name = e2.name /\ e1.branch_id = e2.branch_id) => e1.id = e2.id

\* Two calls raced: a task passed the existence check for a name, and
\* before its INSERT another call stored an entity of that name in the same
\* branch, while the other branch holds an entity of that name too.
C1_Witness ==
  \E task \in BagToSet(tasks) :
    /\ task.pc = "insert"
    /\ ~ task.existing
    /\ EntityRows(DB, validName(Head(task.batch)), task.branchId) # {}
    /\ \E e \in entities : /\ e.name = validName(Head(task.batch))
                           /\ e.branch_id # task.branchId

\* C2: for every entity, the sequence_order values of its observations are
\* pairwise distinct and non-negative, after any sequence of createEntities,
\* updateEntity, addObservations and deleteObservations calls.
C2_SequenceOrdersDistinct ==
  /\ \A o \in observations : o.sequence_order >= 0
  /\ \A o1, o2 \in observations :
       (o1.entity_id = o2.entity_id /\ o1.id # o2.id)
         => o1.sequence_order # o2.sequence_order

\* C3: addObservations gives every observation it inserts a sequence_order
\* strictly greater than every sequence_order the entity's observations had
\* before the call.
C3_AppendsAboveMaximum ==
  [][ret'.op = "addObservations" =>
       \A n \in observations' \ observations :
         \A o \in observations :
           o.entity_id = n.entity_id => n.sequence_order > o.sequence_order]_vars

\* C4: in every reachable state, both endpoints of each stored relation
\* exist and belong to the branch recorded on the relation.
C4_RelationEndpointsInBranch ==
  \A r \in relations :
    /\ \E e \in entities : e.id = r.from_entity_id /\ e.branch_id = r.branch_id
    /\ \E e \in entities : e.id = r.to_entity_id /\ e.branch_id = r.branch_id

\* createRelations has just been called on docs, docs holds a relation and
\* main holds an entity (which the lookup of an endpoint must not pick).
C4_Witness ==
  /\ ret.op = "createRelations"
  /\ ret.branch = "docs"
  /\ \E r \in relations : r.branch_id \in BranchIds("docs")
  /\ \E e \in entities : e.branch_id \in BranchIds("main")

\* The ids of the entities called `name` in branch `branch`.
EntityIdsOf(name, branch) ==
  {e.id : e \in {x \in entities : x.name = name /\ x.branch_id \in BranchIds(branch)}}

MatchesRow(relation, r, branch) ==
  /\ r.relation_type = relation.relationType
  /\ r.branch_id \in {b.id : b \in {x \in memory_branches' : x.name = branch}}
  /\ \E e \in entities' : e.id = r.from_entity_id /\ e.name = relation.from
  /\ \E e \in entities' : e.id = r.to_entity_id /\ e.name = relation.to

\* C6: createRelations returns exactly the relations it newly inserted: a
\* relation already stored, or occurring earlier in the batch, is not in the
\* returned list.
C6_ReturnsNewlyInserted ==
  [][ret'.op = "createRelations" =>
       /\ Len(ret'.out) = Cardinality(relations' \ relations)
       /\ \A i \in DOMAIN ret'.out :
            \E r \in relations' \ relations : MatchesRow(ret'.out[i], r, ret'.branch)]_vars

\* C7: deleteBranch(b) for an existing branch b other than main succeeds and
\* leaves no branch row, entity or relation of b, whether or not b contains
\* entities or relations.
C7_DeleteBranchRemovesBranch ==
  [][(/\ ret'.op = "deleteBranch"
      /\ ret'.branch # "main"
      /\ BranchIds(ret'.branch) # {}) =>
       /\ ret'.err = ""
       /\ ~ \E b \in memory_branches' : b.name = ret'.branch
       /\ ~ \E e \in entities' : e.branch_id \in BranchIds(ret'.branch)
       /\ ~ \E r \in relations' : r.branch_id \in BranchIds(ret'.branch)]_vars

C9_CreateExistingBranchFails ==
  [][(ret'.op = "createBranch" /\ BranchIds(ret'.branch) # {}) =>
       (ret'.err # "" /\ memory_branches' = memory_branches)]_vars

\* createBranch has just failed on docs, which exists and holds an entity.
C9_Witness ==
  /\ ret.op = "createBranch"
  /\ ret.branch = "docs"
  /\ ret.err # ""
  /\ \E e \in entities : e.branch_id \in BranchIds("docs")

\* C10: a search of a specific branch, by searchNodes or by smart_search
\* with its similarity expansion, returns only entities and relations whose
\* rows belong to that branch.
C10_SearchStaysInBranch ==
  (ret.op \in {"searchNodes", "smart_search"} /\ ret.err = ""
     /\ ret.branch \in BranchNames)
  => /\ \A e \in ret.out.entities : e.branch_id \in BranchIds(ret.branch)
     /\ \A r \in ret.out.relations : r.branch_id \in BranchIds(ret.branch)

\* A smart search of docs whose expansion added an entity and that returned
\* a relation, while main holds a relation and an entity of a returned name.
C10_Witness ==
  /\ ret.op = "smart_search" /\ ret.branch = "docs" /\ ret.err = ""
  /\ \E e \in ret.out.entities : e.name \in ret.args
  /\ ret.out.relations # {}
  /\ \E e \in entities, x \in ret.out.entities :
       e.name = x.name /\ e.branch_id \in BranchIds("main")
  /\ \E r \in relations : r.branch_id \in BranchIds("main")

\* C11: every entity a search returns (searchNodes, and smart_search with
\* the entities its similarity expansion adds) has a status in the requested
\* status set, and is active when no status set was given.
C11_SearchHonoursStatuses ==
  (ret.op \in {"searchNodes", "smart_search"} /\ ret.err = "")
  => \A e \in ret.out.entities : e.status \in StatusesOf(ret.out.statuses)

\* C12: every relation a search returns has both its from entity and its
\* to entity among the returned entities.
C12_RelationsWithinReturnedSet ==
  (ret.op \in {"searchNodes", "smart_search"} /\ ret.err = "")
  => \A r \in ret.out.relations :
       /\ \E e \in ret.out.entities : e.name = NameOf(DB, r.from_entity_id)
       /\ \E e \in ret.out.entities : e.name = NameOf(DB, r.to_entity_id)

\* C13: a search issued with no branch name returns only entities of
\* branch main.
C13_DefaultBranchIsMain ==
  (ret.op = "searchNodes" /\ ret.err = "" /\ ret.branch = Undefined)
  => \A e \in ret.out.entities : e.branch_id \in BranchIds("main")

\* C14: a store write that touches several rows is atomic: when a step of
\* updateEntity's replacement of observations and cross-references fails,
\* the store is left exactly as it was before the call.
C14_FailedWriteChangesNothing ==
  [][(ret'.op = "updateEntity" /\ ret'.err = "Storage") => UNCHANGED storeVars]_vars

\* C15: an operation that fails with NotFound (createCrossReference with a
\* missing source entity, updateEntity on a missing entity) leaves the whole
\* store unchanged, the set of branches included.
C15_NotFoundChangesNothing ==
  [][(ret'.op \in {"createCrossReference", "updateEntity"} /\ ret'.err = "NotFound")
       => UNCHANGED storeVars]_vars

\* C16: in every reachable state no two cross-reference rows share the same
\* (source entity, target branch, target entity name).
C16_CrossReferencesUnique ==
  \A c1, c2 \in cross_references :
    (/\ c1.from_entity_id = c2.from_entity_id
     /\ c1.target_branch_id = c2.target_branch_id
     /\ c1.target_entity_name = c2.target_entity_name) => c1.id = c2.id


\* C17: in a batch write the failure of one item does not keep the remaining
\* items from being applied, and the returned list holds exactly the items
\* that were applied.  For createRelations: every item of the batch that is
\* well formed and whose two endpoints exist in the branch is stored after
\* the call, and every returned relation names a row the call inserted.
C17_BatchAppliesAndReturnsApplied ==
  [][ret'.op = "createRelations" =>
       /\ \A i \in DOMAIN ret'.args :
            (/\ ~ IsInvalidRelation(ret'.args[i])
             /\ EntityIdsOf(ret'.args[i].from, ret'.branch) # {}
             /\ EntityIdsOf(ret'.args[i].to, ret'.branch) # {})
            => \E r \in relations' : MatchesRow(ret'.args[i], r, ret'.branch)
       /\ \A i \in DOMAIN ret'.out :
            \E r \in relations' \ relations : MatchesRow(ret'.out[i], r, ret'.branch)]_vars

\* An entity name that is empty or blank.
IsBlankName(name) == Falsy(name) \/ Trim(name) = ""

\* C18: createEntities stores no entity for an input whose name is empty or
\* blank: the call creates at most as many entity rows, and returns at most
\* as many entities, as the batch has items with a name that is not blank.
C18_BlankNameNotStored ==
  [][ret'.op = "createEntities" =>
       LET named == {i \in DOMAIN ret'.args : ~ IsBlankName(ret'.args[i].name)}
       IN /\ Cardinality(entities' \ entities) <= Cardinality(named)
          /\ Len(ret'.out) <= Cardinality(named)]_vars

\* C19: createBranch with an empty name fails with an error and creates no
\* branch.
C19_EmptyBranchNameRejected ==
  [][(ret'.op = "createBranch" /\ ret'.branch = "") =>
       (ret'.err # "" /\ memory_branches' = memory_branches)]_vars

\* C20: importing the export of a branch into a fresh branch and exporting
\* that branch yields the entities (name, type, status, observation list)
\* and relations of the first export.
C20_ExportImportRoundTrip ==
  ret.op = "importData" => ret.out.again = ret.out.exported

\* C21: there is exactly one document of the full-text index for each
\* existing entity id, and none for an id that no entity has.
C21_FtsRowsMirrorEntities ==
  entities_fts = {e.id : e \in entities}

\* C22: every stored observation is non-empty after trimming: the blank
\* strings given to createEntities, updateEntity or addObservations are not
\* stored.
C22_StoredObservationsNotBlank ==
  \A o \in observations : IsValidObservation(o.content)

\* C23: reading a branch returns only entities whose status is in
\* include_statuses, and only active entities when include_statuses is
\* omitted.
C23_ReadBranchHonoursStatuses ==
  ret.op = "read_memory_branch"
  => \A e \in ret.out.entities :
       e.status \in (IF ret.out.statuses = Undefined THEN {"active"}
                     ELSE Range(ret.out.statuses))

\* The entity row matches one of the terms by its name.
MatchesByName(e, searchTerms) == LikeAny(e.name, searchTerms)

\* The entity row matches the terms through the content of an observation
\* and neither by its name nor by its type.
MatchesByContentOnly(e, searchTerms) ==
  /\ ~ LikeAny(e.name, searchTerms)
  /\ ~ LikeAny(e.entity_type, searchTerms)
  /\ \E o \in observations : o.entity_id = e.id /\ LikeAny(o.content, searchTerms)

\* C24: in a search result an entity whose name matches a query term is
\* ranked above every entity that matches only through observation content:
\* the result is sorted by descending relevance_score, so the score of the
\* first is not below the score of the second.
C24_NameMatchesRankFirst ==
  (ret.op = "searchNodes" /\ "scores" \in DOMAIN ret.out)
  => \A e1, e3 \in ret.out.entities :
       (MatchesByName(e1, ret.args) /\ MatchesByContentOnly(e3, ret.args))
       => ret.out.scores[e1.id] >= ret.out.scores[e3.id]

\* C25: at most one task of the worker is being processed at any time; a
\* tick of the timer while a task is in flight starts no second task.
C25_OneTaskInFlight == BagCardinality(indexer.running) <= 1

\* A task is in flight, the timer is on and the queue holds a task the next
\* tick could start.
C25_Witness ==
  /\ BagCardinality(indexer.running) = 1
  /\ indexer.processingInterval
  /\ indexer.taskQueue # <<>>

\* C26: a create_entities request leaves an index_entity task in the queue
\* for every entity it created, whether auto_create_relations is on or off
\* and whether or not the similarity detection succeeds.
C26_CreatedEntitiesAreQueued ==
  [][\A e \in entities' \ entities :
       IndexTask("index_entity", e.name, getBranchName(DB', e.branch_id))
         \in Range(indexer'.taskQueue)]_vars

\* C27: an entity whose index_entity task was queued has its suggestions
\* computed within the slot of the first task started after that, whatever
\* the queue held; the slot of the detect_relationships task that the
\* index_entity task queues is counted as part of that one slot.
C27_SuggestionsWithinOneSlot == \A o \in lag : o.slots <= 2

\* A step in which processTask returns for the task in flight.
TaskEnds == BagCardinality(indexer'.running) < BagCardinality(indexer.running)

\* The fair runs of the worker: the timer keeps firing while it is set, and
\* the call a task waits for returns or throws.
NextWorker ==
  \/ HandleCreateEntities
  \/ DeleteIndexed
  \/ Tick
  \/ CompleteTask
  \/ Shutdown

SpecIndexerFair ==
  Init /\ [][NextWorker]_vars /\ WF_vars(Tick) /\ WF_vars(CompleteTask)

\* A task of this type for entity `name` of branch docs is in the queue.
Queued(type, name) == IndexTask(type, name, "docs") \in Range(indexer.taskQueue)

\* processTask is running for such a task.
InFlight(type, name) == BagIn(IndexTask(type, name, "docs"), indexer.running)

\* Entity `name` is stored in branch docs.
StoredInDocs(name) ==
  \E e \in entities : e.name = name /\ getBranchName(DB, e.branch_id) = "docs"

C29_TaskErrorIsContained ==
  [][(TaskEnds /\ indexer'.failed) =>
       /\ ~ indexer'.isProcessing
       /\ ret' = ret
       /\ indexer'.taskQueue = indexer.taskQueue]_vars

\* A task has failed and the worker is idle with tasks still queued.
C29_Witness ==
  /\ indexer.failed
  /\ ~ indexer.isProcessing
  /\ indexer.taskQueue # <<>>
  /\ indexer.processingInterval

\* C30: processing a task of the worker creates, modifies or deletes no
\* branch, entity, observation or relation.
C30_TasksLeaveStoreUnchanged ==
  [][TaskEnds => UNCHANGED <<memory_branches, entities, observations, relations>>]_vars

C40_NoTaskInFlightOnceClosed ==
  ~ manager.open => indexer.running = EmptyBag

\* C36: the entities the last createEntities call returned as created, with
\* no deletion since, are among those exportBranch returns for the branch,
\* also when the call ran while the startup migration was in progress.
C36_CreatedEntitiesAreExported ==
  ret.op = "createEntities" =>
    Range(ret.out) \subseteq hybridExportBranch(DB, manager, ret.branch).names

\* C32: every relation a create_entities request adds links entities of
\* one branch, and its target is active or draft when the relation is
\* created.
C32_AutoRelationsTargetLiveEntities ==
  [][ret'.op = "createEntities" =>
       \A r \in relations' \ relations :
         \E from \in entities', to \in entities' :
           /\ from.id = r.from_entity_id
           /\ to.id = r.to_entity_id
           /\ from.branch_id = to.branch_id
           /\ to.status \in {"active", "draft"}]_vars

\* The contents of the observations of an entity, in the order stored.
StoredObservations(d, entityId) ==
  LET ids == Ascending({o.id : o \in {x \in d.observations : x.entity_id = entityId}})
  IN [i \in DOMAIN ids |-> (CHOOSE o \in d.observations : o.id = ids[i]).content]

\* The cross-references of an entity: target branch and target name.
StoredCrossReferences(d, entityId) ==
  {<<c.target_branch_id, c.target_entity_name>> :
     c \in {x \in d.cross_references : x.from_entity_id = entityId}}

\* C33: an updateEntityStatus call that succeeds leaves every entity with
\* its name, branch, type, observations and cross-references, and every
\* entity but the one called name in the addressed branch (main when none
\* is given) with its status.
C33_StatusUpdateChangesOnlyStatus ==
  [][(ret'.op = "updateEntityStatus" /\ ret'.err = "") =>
       \A e \in entities :
         \E e2 \in entities' :
           /\ e2.id = e.id
           /\ e2.name = e.name
           /\ e2.branch_id = e.branch_id
           /\ e2.entity_type = e.entity_type
           /\ StoredObservations(DB', e.id) = StoredObservations(DB, e.id)
           /\ StoredCrossReferences(DB', e.id) = StoredCrossReferences(DB, e.id)
           /\ ~ (/\ e.name = ret'.args[1]
                 /\ e.branch_id \in BranchIds(OrElse(ret'.branch, "main")))
                => e2.status = e.status]_vars

\* The observations of the entities called name in branch main: what is
\* stored with which sequence_order, and how many they are.
AppendedObservations(d, name) ==
  LET rows == {o \in d.observations :
                 \E e \in d.entities : /\ e.id = o.entity_id
                                       /\ e.name = name
                                       /\ e.branch_id = 1}
  IN [stored |-> {<<o.content, o.sequence_order>> : o \in rows},
      count |-> Cardinality(rows)]

\* The store after the calls with the items `items` ran one after the
\* other.
RECURSIVE OneAfterTheOther(_, _)
OneAfterTheOther(d, items) ==
  IF items = <<>> THEN d
  ELSE OneAfterTheOther(addObservations(d, <<Head(items)>>, "main").db, Tail(items))

\* C34: when the addObservations calls on one entity that were in flight
\* together have all returned, the observations of the entity are those
\* that running the calls one after the other, in some order, would have
\* stored.
C34_InterleavedAppendsAreSerialisable ==
  (ret.op = "addObservations" /\ tasks = EmptyBag) =>
    \E p \in Permutations(DOMAIN ret.args) :
      AppendedObservations(DB, "Auth")
        = AppendedObservations(
            OneAfterTheOther(ret.out[1], [i \in DOMAIN ret.args |-> ret.args[p[i]]]),
            "Auth")

\* C35: no branch named "*" is ever stored, whatever is searched.
C35_NoStarBranch == \A b \in memory_branches : b.name # "*"

\* What getRelationshipSuggestions returns for a name: the targets.
SuggestedTargets(name) ==
  UNION {x.suggestedRelations : x \in {i \in indexer.entityIndex : i.entityId = name}}

\* C37: every target the Indexer suggests for a name is an entity of the
\* branch of each stored entity of that name, so that the suggestions of an
\* entity are never those of its namesake in another branch.
C37_SuggestionsStayInBranch ==
  \A e \in entities :
    \A target \in SuggestedTargets(e.name) :
      \E e2 \in entities : e2.name = target /\ e2.branch_id = e.branch_id

\* The queue is empty and no task is in flight.
Drained == indexer.taskQueue = <<>> /\ indexer.running = EmptyBag

\* The entity called name is stored in docs and nowhere else, and indexed
\* for docs.
IndexedInDocsOnly(name) ==
  /\ StoredInDocs(name)
  /\ \A e \in entities : e.name = name => getBranchName(DB, e.branch_id) = "docs"
  /\ <<"docs", name>> \in indexer.branchIndices
  /\ \E i \in indexer.entityIndex : i.entityId = name

\* C38: once the queue has drained, two indexed entities of branch docs,
\* which the engine rates similar with high confidence, suggest each
\* other, whichever was created first.
C38_SuggestionsAreSymmetric ==
  Drained =>
    \A a \in EntityNames, b \in EntityNames :
      (a # b /\ IndexedInDocsOnly(a) /\ IndexedInDocsOnly(b)) =>
        (b \in SuggestedTargets(a) /\ a \in SuggestedTargets(b))

\* The Indexer suggests the name as a target, or has suggestions for it.
Suggested(name) ==
  \/ SuggestedTargets(name) # {}
  \/ \E x \in indexer.entityIndex : name \in x.suggestedRelations

\* C39: while the server runs, an entity of docs that has been deleted is
\* eventually neither suggested nor given suggestions, unless it is
\* created again.
C39_DeletedEntityLeavesSuggestions ==
  []Serving =>
    \A name \in EntityNames :
      [](~ StoredInDocs(name) => <>(StoredInDocs(name) \/ ~ Suggested(name)))

====
